---- MODULE Spec2Model ----
(***************************************************************************)
(* Model of the deterministic generator of mikoshi-core                    *)
(* (packages/shared/src/random/seeded-random.ts): the Park-Miller LCG      *)
(* SeededRandom, its seeding rule and the operations derived from next().  *)
(*                                                                         *)
(* Numbers.  The generator state is an integer below 2^31 and every        *)
(* product the code forms stays below 2^53, so the code's float64          *)
(* arithmetic on the state is exact; the model computes the same values    *)
(* with integer operators that never leave 32 bits (Schrage, MulDivFloor). *)
(* next() returns the float (seed-1)/(MODULUS-1); the model keeps it as    *)
(* the exact fraction [num, den].  A seed argument may exceed 2^31, be     *)
(* negative or fractional; it is kept as sign, multiple of MODULUS,        *)
(* remainder and a half (SeedNum).                                         *)
(***************************************************************************)
EXTENDS Integers, Sequences, FiniteSets, TLC

\* ------------------------------------------------------------------ bounds
\* Calls in a script driven against the generator instances.
MaxOps == 2
\* Draws taken from the single generator of SpecFn before the call observed.
MaxWarm == 3
\* nextInt arguments range over -MaxAbs..MaxAbs.
MaxAbs == 3
\* Arrays handed to shuffle have at most MaxLen elements.
MaxLen == 3
\* Consecutive draws taken from one generator in SpecStream.
StreamLen == 10000

\* ------------------------------------------------------- program constants
MULTIPLIER == 48271
MODULUS == 2147483647
CHECK == 1493962164
\* "Correct value after 10000 iterations with seed=1".
CheckIterations == 10000

\* -------------------------------------------------------------- arithmetic
\* MODULUS = SchrageQ * MULTIPLIER + SchrageR with SchrageR < SchrageQ.
SchrageQ == MODULUS \div MULTIPLIER
SchrageR == MODULUS % MULTIPLIER

\* MULTIPLIER * s - MODULUS * (s \div SchrageQ), which is congruent to
\* s * MULTIPLIER and lies strictly between -MODULUS and MODULUS.
Schrage(s) == MULTIPLIER * (s % SchrageQ) - SchrageR * (s \div SchrageQ)

\* (s * MULTIPLIER) % MODULUS for 0 <= s < MODULUS, without leaving 32 bits.
MulModLcg(s) == IF Schrage(s) < 0 THEN Schrage(s) + MODULUS ELSE Schrage(s)

\* <<q, r>> doubled: 2 * (q * den + r) as quotient and remainder by den.
DoubleQR(p, den) ==
  IF p[2] >= den - p[2]
  THEN << 2 * p[1] + 1, p[2] - (den - p[2]) >>
  ELSE << 2 * p[1], 2 * p[2] >>

\* <<q, r>> plus x, for 0 <= x <= den.
AddQR(p, x, den) ==
  IF p[2] >= den - x
  THEN << p[1] + 1, p[2] - (den - x) >>
  ELSE << p[1], p[2] + x >>

RECURSIVE QuoRem(_, _, _)
\* Quotient and remainder of num * k by den, for 0 <= num <= den and k >= 0.
QuoRem(num, k, den) ==
  IF k = 0 THEN << 0, 0 >>
  ELSE AddQR(DoubleQR(QuoRem(num, k \div 2, den), den),
             IF k % 2 = 1 THEN num ELSE 0, den)

\* -Math.floor(-x) for x = <<q, r>>: the ceiling.
Ceil(p) == IF p[2] > 0 THEN p[1] + 1 ELSE p[1]

\* Math.floor(u * k) for the fraction u = num/den and an integer k >= 0.
MulDivFloor(u, k) ==
  IF u.num >= 0
  THEN QuoRem(u.num, k, u.den)[1]
  ELSE 0 - Ceil(QuoRem(0 - u.num, k, u.den))

\* --------------------------------------------------------- seed arguments
\* The number sign * (hi * MODULUS + lo + (half ? 1/2 : 0)), 0 <= lo < MODULUS.
SeedNum(neg, hi, lo, half) == [neg |-> neg, hi |-> hi, lo |-> lo, half |-> half]

\* An integer n with |n| < MODULUS as a seed argument.
FromInt(n) == SeedNum(n < 0, 0, IF n < 0 THEN 0 - n ELSE n, FALSE)

\* Math.floor(x): only a negative number with a fractional part moves.
Floor(x) ==
  IF ~x.half THEN x
  ELSE IF ~x.neg THEN [x EXCEPT !.half = FALSE]
  ELSE IF x.lo = MODULUS - 1
       THEN [x EXCEPT !.half = FALSE, !.hi = x.hi + 1, !.lo = 0]
       ELSE [x EXCEPT !.half = FALSE, !.lo = x.lo + 1]

\* Math.abs(x).
Abs(x) == [x EXCEPT !.neg = FALSE]

\* seed >= MODULUS, seed % MODULUS and the value of a number below MODULUS.
GeModulus(x) == x.hi >= 1
ModModulus(x) == x.lo
ToInt(x) == IF x.neg THEN 0 - x.lo ELSE x.lo

\* v || 1
OrOne(x) == IF x.hi = 0 /\ x.lo = 0 THEN FromInt(1) ELSE x

\* if (this.seed >= MODULUS) this.seed = this.seed % MODULUS
Reduce(x) == IF GeModulus(x) THEN ModModulus(x) ELSE ToInt(x)

\* if (this.seed === 0) this.seed = 1
NonZero(s) == IF s = 0 THEN 1 ELSE s

\* Variant of Normalize that leaves out the final "seed === 0" repair.
NormalizeNoZeroCheck(x) == Reduce(OrOne(Abs(Floor(x))))

\* Variant of Normalize that wraps a negative seed into 1..MODULUS-1 by
\* adding MODULUS instead of taking its absolute value.
NormalizeWrapNegative(x) ==
  IF Floor(x).neg
  THEN NonZero((MODULUS - ModModulus(Floor(x))) % MODULUS)
  ELSE NonZero(Reduce(OrOne(Floor(x))))

\* The seeding rule of the constructor:
\*   this.seed = Math.abs(Math.floor(seed)) || 1;
\*   if (this.seed >= MODULUS) this.seed = this.seed % MODULUS;
\*   if (this.seed === 0) this.seed = 1;
Normalize(x) == NonZero(Reduce(OrOne(Abs(Floor(x)))))

\* ------------------------------------------------------ generator objects
\* A SeededRandom object: its seed field, and the number of next() calls it
\* has executed (a counter of the model, not a field of the class).
Gen(s, n) == [seed |-> s, draws |-> n]

\* new SeededRandom(seed)
Construct(x) == Gen(Normalize(x), 0)

\* An operation's outcome: the object afterwards and either the value
\* returned or the error thrown (its class name and its message).
Return(st, v) == [st |-> st, ok |-> TRUE, val |-> v, name |-> "", msg |-> <<>>]
Throw(st, m) == [st |-> st, ok |-> FALSE, val |-> <<>>, name |-> "Error", msg |-> m]

\* (this.seed * MULTIPLIER) % MODULUS
NextSeed(s) == MulModLcg(s)

\* Variant of NextValue that divides in integer arithmetic.
NextValueIntDiv(s) == [num |-> (s - 1) \div (MODULUS - 1), den |-> 1]

\* Variant of NextValue that forgets the "- 1".
NextValueNoShift(s) == [num |-> s, den |-> MODULUS - 1]

\* (this.seed - 1) / (MODULUS - 1), as an exact fraction.
NextValue(s) == [num |-> s - 1, den |-> MODULUS - 1]

\* The outcome of next() once the new seed s is stored.
Drawn(s, n) == Return(Gen(s, n + 1), NextValue(s))

\* next()
Next(st) == Drawn(NextSeed(st.seed), st.draws)

\* Math.floor(draw * range) + min, r being the outcome of this.next().
Scaled(r, range, min) == Return(r.st, MulDivFloor(r.val, range) + min)

\* Variant of NextInt with range = max - min + 2.
NextIntWideRange(st, min, max) ==
  IF min > max
  THEN Throw(st, <<"Invalid range: min (", min, ") must be <= max (", max, ")">>)
  ELSE Scaled(Next(st), max - min + 2, min)

\* Variant of NextInt without the argument check.
NextIntUnchecked(st, min, max) ==
  Scaled(Next(st), IF max >= min THEN max - min + 1 ELSE 0, min)

\* nextInt(min, max)
NextInt(st, min, max) ==
  IF min > max
  THEN Throw(st, <<"Invalid range: min (", min, ") must be <= max (", max, ")">>)
  ELSE Scaled(Next(st), max - min + 1, min)

\* next() * (max - min) + min, kept as the draw u with its scale and offset.
Affine(r, scale, offset) ==
  Return(r.st, [u |-> r.val, scale |-> scale, offset |-> offset])

\* nextFloat(min, max)
NextFloat(st, min, max) ==
  IF min >= max
  THEN Throw(st, <<"Invalid range: min (", min, ") must be < max (", max, ")">>)
  ELSE Affine(Next(st), max - min, min)

\* next() < p.num / p.den  iff  Math.floor(next() * p.den) < p.num.
Below(r, p) == Return(r.st, MulDivFloor(r.val, p.den) < p.num)

\* Variant of NextBoolean that returns next() >= probability.
NextBooleanInverted(st, p) ==
  IF p.num < 0 \/ p.num > p.den
  THEN Throw(st, <<"Probability must be between 0 and 1, got ", p>>)
  ELSE Return(Below(Next(st), p).st, ~Below(Next(st), p).val)

\* nextBoolean(probability) for probability = p.num / p.den, p.den > 0.
NextBoolean(st, p) ==
  IF p.num < 0 \/ p.num > p.den
  THEN Throw(st, <<"Probability must be between 0 and 1, got ", p>>)
  ELSE Below(Next(st), p)

\* result[j] read at an index outside the array is undefined.
At(result, j) == IF j + 1 \in 1..Len(result) THEN result[j + 1] ELSE "undefined"

\* result[j] = v; written at index result.length the element is appended,
\* and no other index outside the array is written by the loops here.
Put(result, j, v) ==
  IF j + 1 \in 1..Len(result) THEN [result EXCEPT ![j + 1] = v]
  ELSE IF j = Len(result) THEN Append(result, v)
  ELSE result

\* array[index], r being the outcome of nextInt; 0-based in the code.
Indexed(r, array) == Return(r.st, At(array, r.val))

\* Variant of Choice that draws the index before it looks at the length.
ChoiceDrawsFirst(st, array) ==
  IF Len(array) = 0
  THEN Throw(Next(st).st, <<"Cannot choose from empty array">>)
  ELSE Indexed(NextInt(st, 0, Len(array) - 1), array)

\* choice(array)
Choice(st, array) ==
  IF Len(array) = 0
  THEN Throw(st, <<"Cannot choose from empty array">>)
  ELSE Indexed(NextInt(st, 0, Len(array) - 1), array)

\* Variant of Swap that copies result[j] over result[i] and keeps result[j].
SwapOverwrite(result, i, j) == Put(result, i, At(result, j))

\* [result[i], result[j]] = [result[j], result[i]]   (0-based i, j): the
\* right-hand side is read first, then result[i] and result[j] are written.
Swap(result, i, j) == Put(Put(result, i, At(result, j)), j, At(result, i))

RECURSIVE ShuffleLoop(_, _, _)
\* The body of the loop at index i, r being the outcome of nextInt(0, i).
ShuffleBody(r, result, i) == ShuffleLoop(r.st, Swap(result, i, r.val), i - 1)

\* for (let i = result.length - 1; i > 0; i--) { j = nextInt(0, i); swap }
ShuffleLoop(st, result, i) ==
  IF i > 0
  THEN ShuffleBody(NextInt(st, 0, i), result, i)
  ELSE Return(st, result)

\* Variant of Shuffle whose loop starts at result.length.
ShuffleFromLength(st, array) == ShuffleLoop(st, array, Len(array))

\* shuffle(array): works on the copy [...array] and returns it.
Shuffle(st, array) == ShuffleLoop(st, array, Len(array) - 1)

\* shuffled.slice(0, n), r being the outcome of this.shuffle([...array]);
\* slice stops at the end of the array.
Sliced(r, n) == Return(r.st, SubSeq(r.val, 1, IF n > Len(r.val) THEN Len(r.val) ELSE n))

\* Variant of Sample without the test n > array.length.
SampleUnchecked(st, array, n) ==
  IF n < 0
  THEN Throw(st, <<"Sample size must be non-negative, got ", n>>)
  ELSE Sliced(Shuffle(st, array), n)

\* sample(array, n)
Sample(st, array, n) ==
  IF n > Len(array)
  THEN Throw(st, <<"Cannot sample ", n, " elements from array of length ", Len(array)>>)
  ELSE IF n < 0
  THEN Throw(st, <<"Sample size must be non-negative, got ", n>>)
  ELSE Sliced(Shuffle(st, array), n)

\* The default charset of string(), chars.split('').
DefaultCharset ==
  << "a","b","c","d","e","f","g","h","i","j","k","l","m",
     "n","o","p","q","r","s","t","u","v","w","x","y","z",
     "A","B","C","D","E","F","G","H","I","J","K","L","M",
     "N","O","P","Q","R","S","T","U","V","W","X","Y","Z",
     "0","1","2","3","4","5","6","7","8","9" >>

\* The hex digits used by uuid().
HexCharset ==
  << "0","1","2","3","4","5","6","7","8","9","a","b","c","d","e","f" >>

RECURSIVE StringLoop(_, _, _, _)
\* The body of the loop, r being the outcome of this.choice(chars.split('')).
StringBody(r, chars, result, left) ==
  StringLoop(r.st, chars, Append(result, r.val), left - 1)

\* for (let i = 0; i < length; i++) result += this.choice(chars.split(''))
StringLoop(st, chars, result, left) ==
  IF left > 0
  THEN StringBody(Choice(st, chars), chars, result, left)
  ELSE Return(st, result)

\* string(length, charset): the string is kept as its sequence of characters;
\* an absent or empty charset is falsy and selects the default one.
String(st, length, charset) ==
  IF length < 0
  THEN Throw(st, <<"String length must be non-negative, got ", length>>)
  ELSE StringLoop(st, IF charset = <<>> THEN DefaultCharset ELSE charset, <<>>, length)

\* -Math.log(1 - next()) / lambda, kept as the draw u with its rate.
Rated(r, lambda) == Return(r.st, [u |-> r.val, lambda |-> lambda])

\* exponential(lambda)
Exponential(st, lambda) ==
  IF lambda <= 0
  THEN Throw(st, <<"Lambda must be positive, got ", lambda>>)
  ELSE Rated(Next(st), lambda)

\* clone(): new SeededRandom(this.seed); the value returned is the new object.
Clone(st) == Return(st, Construct(FromInt(st.seed)))

\* Variant of ResetSeed without the final test this.seed === 0.
ResetSeedKeepsZero(x) == Reduce(OrOne(Abs(Floor(x))))

\* The seed reset(seed) stores, by the statements of reset itself:
\*   this.seed = Math.abs(Math.floor(seed)) || 1;
\*   if (this.seed >= MODULUS) this.seed = this.seed % MODULUS;
\*   if (this.seed === 0) this.seed = 1;
ResetSeed(x) == NonZero(Reduce(OrOne(Abs(Floor(x)))))

\* reset(seed?): arg is <<>> for reset() and <<x>> for reset(x).
Reset(st, arg) ==
  IF Len(arg) > 0
  THEN Return(Gen(ResetSeed(arg[1]), st.draws), "void")
  ELSE Return(st, "void")

\* ------------------------------------------------------------------ calls
\* A method call on a generator object.
Call(op, args) == [op |-> op, args |-> args]

\* The call c executed on the object st.
Exec(st, c) ==
  CASE c.op = "next"        -> Next(st)
    [] c.op = "nextInt"     -> NextInt(st, c.args[1], c.args[2])
    [] c.op = "nextFloat"   -> NextFloat(st, c.args[1], c.args[2])
    [] c.op = "nextBoolean" -> NextBoolean(st, c.args[1])
    [] c.op = "choice"      -> Choice(st, c.args[1])
    [] c.op = "shuffle"     -> Shuffle(st, c.args[1])
    [] c.op = "sample"      -> Sample(st, c.args[1], c.args[2])
    [] c.op = "string"      -> String(st, c.args[1], c.args[2])
    [] c.op = "exponential" -> Exponential(st, c.args[1])
    [] c.op = "clone"       -> Clone(st)
    [] c.op = "reset"       -> Reset(st, c.args)

\* What the caller of a call observes: the value or the error.
Observed(r) == [ok |-> r.ok, val |-> r.val, name |-> r.name, msg |-> r.msg]

\* A probability num/den.
Prob(n, d) == [num |-> n, den |-> d]

\* Number.MAX_SAFE_INTEGER = 2^53 - 1 = 4194304 * MODULUS + 4194303.
MaxSafeInteger == SeedNum(FALSE, 4194304, 4194303, FALSE)

\* Seed arguments of the two-object runs: 0, 1, a seed and its negation, and
\* MODULUS itself (reduced to 0 and repaired to 1).
SeedInputs ==
  { FromInt(0), FromInt(1), FromInt(12345), FromInt(0 - 12345), FromInt(67890),
    SeedNum(FALSE, 1, 0, FALSE) }

\* The calls a script is made of (a tuple: the calls are indexed).
ScriptCalls ==
  << Call("next", <<>>),
    Call("nextInt", <<1, 6>>),
    Call("nextInt", <<3, 1>>),
    Call("nextBoolean", <<Prob(1, 2)>>),
    Call("choice", << <<"a", "b", "c">> >>),
    Call("shuffle", << <<"a", "b", "b">> >>),
    Call("sample", << <<"a", "b", "c">>, 2 >>),
    Call("string", <<2, HexCharset>>),
    Call("clone", <<>>),
    Call("reset", <<FromInt(0 - 12345)>>),
    Call("reset", <<>>) >>

\* Seed arguments of the single-object runs: the above, the seeds whose first
\* draw is the smallest and the largest state, fractional and negative
\* fractional seeds, MODULUS - 1, MODULUS + 1 and Number.MAX_SAFE_INTEGER.
FnSeedInputs ==
  SeedInputs \cup
  { FromInt(1899818559), FromInt(247665088), FromInt(MODULUS - 1),
    SeedNum(FALSE, 0, 1, TRUE), SeedNum(TRUE, 0, 0, TRUE),
    SeedNum(TRUE, 0, MODULUS - 1, TRUE), SeedNum(FALSE, 1, 1, FALSE),
    MaxSafeInteger }

\* Elements of the arrays handed to choice, shuffle and sample.
Elems == {"a", "b", "c"}

\* Every array of at most MaxLen elements.
Arrays == UNION { [1..n -> Elems] : n \in 0..MaxLen }

\* ------------------------------------------------------------------ state
VARIABLES
  ctor,     \* two-object runs: the seed argument each object was built with
  gen,      \* two-object runs: the objects
  script,   \* two-object runs: the calls made so far, in order
  out,      \* two-object runs: what each object's caller observed, per call
  fctor,    \* single-object runs: the seed argument
  fgen,     \* single-object runs: the object
  fpre,     \* single-object runs: the object before its last call
  fcall,    \* single-object runs: the last call
  fres,     \* single-object runs: what the last call's caller observed
  fn,       \* single-object runs: 1 once the call observed was made
  sctor,    \* draw stream: the seed argument
  sgen,     \* draw stream: the object
  sprev,    \* draw stream: the seed before the last next()
  sval,     \* draw stream: <<value of the last next()>>, <<>> before the first
  tctor,    \* twin streams: the seed argument of each object
  tgen,     \* twin streams: the objects
  tdiff,    \* twin streams: some pair of draws so far differed
  vgen,     \* verify(): the local rng
  vi,       \* verify(): the loop counter i
  vpc,      \* verify(): position in the method
  vret,     \* verify(): the value returned
  kgen,     \* derived object: <<original>>, then <<original, second object>>
  khow,     \* derived object: how the second object was made
  kscript,  \* derived object: the calls made since, in order
  kout,     \* derived object: what each object's caller observed, per call
  kprev,    \* derived object: the objects before the last call
  kwho,     \* derived object: the object of the last call, 0 before it
  jconv,    \* injection: the messages of the conversation handed to inject
  jcfgs,    \* injection: the ordered configuration list handed to inject
  jdefault, \* injection: the default seed of each run's process
  jgen,     \* injection: the generator of each run
  jrun,     \* injection: each run's position, messages, statistics, outcome
  cseed,    \* factories: the seed each ConversationFactory was built with
  crng,     \* factories: the generator of each factory
  cmade,    \* factories: <<options, conversation>> of each factory's call
  idCounter, \* factories: the static ConversationFactory.idCounter
  now,      \* factories: the clock Date.now() reads
  parsers,  \* registry: the Map parsers, as its entries in insertion order
  formatMap, \* registry: the Map formatMap, as its set of <<format, parser id>>
  plast,    \* registry: the last call made on the registry and its outcome
  hmade,    \* chaos factory: <<>>, then the last create call and what it returned
  heap,     \* shuffle caller: the arrays allocated so far, by reference
  xarg,     \* shuffle caller: the reference handed to shuffle
  xret,     \* shuffle caller: the reference shuffle returned, 0 before the call
  xgen,     \* shuffle caller: the generator
  wgen,     \* violation: the generator of the ConversationFactory
  wmade,    \* violation: <<>>, then the options, the generated and the returned conversation
  lmade     \* LangChain parser: <<>>, then the input of parse and what it returned

vars ==
  << ctor, gen, script, out, fctor, fgen, fpre, fcall, fres, fn,
     sctor, sgen, sprev, sval, tctor, tgen, tdiff, vgen, vi, vpc, vret,
     kgen, khow, kscript, kout, kprev, kwho,
     jconv, jcfgs, jdefault, jgen, jrun,
     cseed, crng, cmade, idCounter, now,
     parsers, formatMap, plast,
     hmade, heap, xarg, xret, xgen, wgen, wmade, lmade >>

pairVars == << ctor, gen, script, out >>
fnVars == << fctor, fgen, fpre, fcall, fres, fn >>
streamVars == << sctor, sgen, sprev, sval >>
twinVars == << tctor, tgen, tdiff >>
verifyVars == << vgen, vi, vpc, vret >>
derivedVars == << kgen, khow, kscript, kout, kprev, kwho >>

\* The variables of the runs that involve more than the draw primitives.
injectVars == << jconv, jcfgs, jdefault, jgen, jrun >>
factoryVars == << cseed, crng, cmade, idCounter, now >>
registryVars == << parsers, formatMap, plast >>
chaosVars == << hmade >>

\* The variables of the utilities around the generator and the registry.
heapVars == << heap, xarg, xret, xgen >>
violationVars == << wgen, wmade >>
langVars == << lmade >>
restVars == << chaosVars, heapVars, violationVars, langVars >>
laterVars == << derivedVars, injectVars, factoryVars, registryVars, restVars >>

\* The two objects of a two-object run.
Gens == {1, 2}

\* The values the variables of a run that is not taking place hold.
PairIdle ==
  /\ ctor = [g \in Gens |-> FromInt(1)]
  /\ gen = [g \in Gens |-> Construct(FromInt(1))]
  /\ script = <<>>
  /\ out = [g \in Gens |-> <<>>]

FnIdle ==
  /\ fctor = FromInt(1)
  /\ fgen = Construct(FromInt(1))
  /\ fpre = fgen
  /\ fcall = Call("new", <<>>)
  /\ fres = Observed(Return(fgen, "void"))
  /\ fn = 0

StreamIdle ==
  /\ sctor = FromInt(1)
  /\ sgen = Construct(FromInt(1))
  /\ sprev = 1
  /\ sval = <<>>

TwinIdle ==
  /\ tctor = [g \in Gens |-> FromInt(1)]
  /\ tgen = [g \in Gens |-> Construct(FromInt(1))]
  /\ tdiff = FALSE

VerifyIdle ==
  /\ vgen = Construct(FromInt(1))
  /\ vi = 0
  /\ vpc = "idle"
  /\ vret = FALSE

DerivedIdle ==
  /\ kgen = << Construct(FromInt(1)) >>
  /\ khow = "none"
  /\ kscript = <<>>
  /\ kout = << <<>>, <<>> >>
  /\ kprev = kgen
  /\ kwho = 0

\* A run of inject: the configuration it is at (0 before the generator is
\* made), its messages and statistics so far, and how it ended.
RunAt(pc, messages, statistics, status, error, result) ==
  [pc |-> pc, messages |-> messages, statistics |-> statistics,
   status |-> status, error |-> error, result |-> result]

InjectIdle ==
  /\ jconv = <<>>
  /\ jcfgs = <<>>
  /\ jdefault = [r \in Gens |-> 1]
  /\ jgen = [r \in Gens |-> Construct(FromInt(1))]
  /\ jrun = [r \in Gens |-> RunAt(0, <<>>, <<>>, "idle", <<>>, <<>>)]

FactoryIdle ==
  /\ cseed = [f \in Gens |-> 1]
  /\ crng = [f \in Gens |-> Construct(FromInt(1))]
  /\ cmade = [f \in Gens |-> <<>>]
  /\ idCounter = 0
  /\ now = 0

RegistryIdle ==
  /\ parsers = <<>>
  /\ formatMap = {}
  /\ plast = <<>>

ChaosIdle == hmade = <<>>

HeapIdle ==
  /\ heap = <<>>
  /\ xarg = 0
  /\ xret = 0
  /\ xgen = Construct(FromInt(1))

ViolationIdle ==
  /\ wgen = Construct(FromInt(1))
  /\ wmade = <<>>

LangIdle == lmade = <<>>

RestIdle == ChaosIdle /\ HeapIdle /\ ViolationIdle /\ LangIdle

LaterIdle == DerivedIdle /\ InjectIdle /\ FactoryIdle /\ RegistryIdle /\ RestIdle

\* ------------------------------------------------- two objects, one script
\* Variant of Store for a seed kept in a static field shared by the objects.
StoreStatic(g, st) == [h \in Gens |-> [gen[h] EXCEPT !.seed = st.seed, !.draws = IF h = g THEN st.draws ELSE @]]

\* this.seed = ... on object g: the field belongs to the object.
Store(g, st) == [gen EXCEPT ![g] = st]

\* Two objects are constructed, each from its own seed argument.
InitPair ==
  /\ ctor \in [Gens -> SeedInputs]
  /\ gen = [g \in Gens |-> Construct(ctor[g])]
  /\ script = <<>>
  /\ out = [g \in Gens |-> <<>>]
  /\ FnIdle /\ StreamIdle /\ TwinIdle /\ VerifyIdle /\ LaterIdle

\* The call on object g had outcome r: the object is updated and its caller
\* records what it observed.
Ran(g, r) ==
  /\ gen' = Store(g, r.st)
  /\ out' = [out EXCEPT ![g] = Append(@, Observed(r))]

\* Object g executes call c.
Run(g, c) == Ran(g, Exec(gen[g], c))

\* The caller of object g makes a call no object has been given yet.
Extend(g) ==
  /\ Len(out[g]) = Len(script)
  /\ Len(script) < MaxOps
  /\ \E i \in 1..Len(ScriptCalls) :
       /\ script' = Append(script, ScriptCalls[i])
       /\ Run(g, ScriptCalls[i])
  /\ UNCHANGED << ctor, fnVars, streamVars, twinVars, verifyVars, laterVars >>

\* The caller of object g makes the next call of the script on it.
Replay(g) ==
  /\ Len(out[g]) < Len(script)
  /\ Run(g, script[Len(out[g]) + 1])
  /\ UNCHANGED << ctor, script, fnVars, streamVars, twinVars, verifyVars, laterVars >>

NextPair == \E g \in Gens : Extend(g) \/ Replay(g)

Spec == InitPair /\ [][NextPair]_vars

\* ------------------------------------------------- one object, any call
\* One object is constructed from a seed argument.
InitFn ==
  /\ fctor \in FnSeedInputs
  /\ fgen = Construct(fctor)
  /\ fpre = fgen
  /\ fcall = Call("new", <<fctor>>)
  /\ fres = Observed(Return(fgen, "void"))
  /\ fn = 0
  /\ PairIdle /\ StreamIdle /\ TwinIdle /\ VerifyIdle /\ LaterIdle

\* The call c on the object had outcome r.
Applied(c, r) ==
  /\ fpre' = fgen
  /\ fgen' = r.st
  /\ fcall' = c
  /\ fres' = Observed(r)
  /\ fn' = fn + 1
  /\ UNCHANGED << fctor, pairVars, streamVars, twinVars, verifyVars, laterVars >>

\* The object's caller makes the call c, the one call that is observed.
Apply(c) == fn = 0 /\ Applied(c, Exec(fgen, c))

\* Before that call the object is used for some draws.
FnWarm ==
  /\ fn = 0
  /\ fgen.draws < MaxWarm
  /\ fgen' = Next(fgen).st
  /\ fpre' = fgen'
  /\ UNCHANGED << fctor, fcall, fres, fn, pairVars, streamVars, twinVars, verifyVars, laterVars >>

\* Probabilities handed to nextBoolean, two of them outside [0,1].
Probs == { Prob(0 - 1, 10), Prob(0, 1), Prob(3, 10), Prob(1, 2), Prob(1, 1), Prob(11, 10) }

FnNext == Apply(Call("next", <<>>))
FnNextInt == \E a, b \in (0 - MaxAbs)..MaxAbs : Apply(Call("nextInt", <<a, b>>))
FnNextFloat == \E a, b \in {0, 1, 100} : Apply(Call("nextFloat", <<a, b>>))
FnNextBoolean == \E p \in Probs : Apply(Call("nextBoolean", <<p>>))
FnChoice == \E xs \in Arrays : Apply(Call("choice", <<xs>>))
FnShuffle == \E xs \in Arrays : Apply(Call("shuffle", <<xs>>))
FnSample == \E xs \in Arrays : \E n \in (0 - 1)..(MaxLen + 1) : Apply(Call("sample", <<xs, n>>))
FnString == \E n \in (0 - 1)..2 : \E cs \in {<<>>, HexCharset} : Apply(Call("string", <<n, cs>>))
FnExponential == \E l \in (0 - 1)..2 : Apply(Call("exponential", <<l>>))
FnClone == Apply(Call("clone", <<>>))
FnReset == \E x \in FnSeedInputs : Apply(Call("reset", <<x>>))
FnResetNoArg == Apply(Call("reset", <<>>))

NextFn ==
  \/ FnWarm
  \/ FnNext \/ FnNextInt \/ FnNextFloat \/ FnNextBoolean \/ FnChoice \/ FnShuffle
  \/ FnSample \/ FnString \/ FnExponential \/ FnClone \/ FnReset \/ FnResetNoArg

SpecFn == InitFn /\ [][NextFn]_vars

\* ------------------------------------------------------- one draw stream
\* One object is constructed and next() is called on it over and over.
InitStream ==
  /\ sctor \in FnSeedInputs
  /\ sgen = Construct(sctor)
  /\ sprev = sgen.seed
  /\ sval = <<>>
  /\ PairIdle /\ FnIdle /\ TwinIdle /\ VerifyIdle /\ LaterIdle

\* next() had outcome r.
Drew(r) ==
  /\ sprev' = sgen.seed
  /\ sgen' = r.st
  /\ sval' = << r.val >>
  /\ UNCHANGED << sctor, pairVars, fnVars, twinVars, verifyVars, laterVars >>

StreamDraw == sgen.draws < StreamLen /\ Drew(Next(sgen))

NextStream == StreamDraw

SpecStream == InitStream /\ [][NextStream]_vars

\* ------------------------------------------------------ two draw streams
\* The tests' loop over two objects: seq1.push(rng1.next()); seq2.push(rng2.next()).
TwinLen == 100

InitTwin ==
  /\ tctor \in [Gens -> SeedInputs]
  /\ tgen = [g \in Gens |-> Construct(tctor[g])]
  /\ tdiff = FALSE
  /\ PairIdle /\ FnIdle /\ StreamIdle /\ VerifyIdle /\ LaterIdle

\* One iteration, r1 and r2 being the outcomes of the two next() calls.
TwinDrew(r1, r2) ==
  /\ tgen' = [g \in Gens |-> IF g = 1 THEN r1.st ELSE r2.st]
  /\ tdiff' = (tdiff \/ r1.val # r2.val)
  /\ UNCHANGED << tctor, pairVars, fnVars, streamVars, verifyVars, laterVars >>

TwinDraw == tgen[1].draws < TwinLen /\ TwinDrew(Next(tgen[1]), Next(tgen[2]))

NextTwin == TwinDraw

SpecTwin == InitTwin /\ [][NextTwin]_vars

\* --------------------------------------------------------------- verify()
\* const rng = new SeededRandom(1)
InitVerify ==
  /\ vgen = Construct(FromInt(1))
  /\ vi = 0
  /\ vpc = "loop"
  /\ vret = FALSE
  /\ PairIdle /\ FnIdle /\ StreamIdle /\ TwinIdle /\ LaterIdle

\* Variant of VerifyIterations that draws as often as the comments say.
VerifyIterationsAsDocumented == CheckIterations

\* The loop bound of verify(): for (let i = 0; i < 9999; i++).
VerifyIterations == 9999

\* for (let i = 0; i < 9999; i++) rng.next()
VerifyLoop ==
  /\ vpc = "loop"
  /\ vi < VerifyIterations
  /\ vgen' = Next(vgen).st
  /\ vi' = vi + 1
  /\ UNCHANGED << vpc, vret, pairVars, fnVars, streamVars, twinVars, laterVars >>

\* return rng.getSeed() === SeededRandom.CHECK
VerifyReturn ==
  /\ vpc = "loop"
  /\ ~(vi < VerifyIterations)
  /\ vret' = (vgen.seed = CHECK)
  /\ vpc' = "done"
  /\ UNCHANGED << vgen, vi, pairVars, fnVars, streamVars, twinVars, laterVars >>

NextVerify == VerifyLoop \/ VerifyReturn

SpecVerify == InitVerify /\ [][NextVerify]_vars

\* --------------------------------------- an object and a second object
randomVars == << pairVars, fnVars, streamVars, twinVars, verifyVars >>

RandomIdle == PairIdle /\ FnIdle /\ StreamIdle /\ TwinIdle /\ VerifyIdle

\* The calls made on the two objects (a tuple: the calls are indexed).
DerivedCalls ==
  << Call("next", <<>>),
    Call("nextInt", <<1, 6>>),
    Call("reset", <<FromInt(0 - 12345)>>),
    Call("reset", <<>>) >>

\* Seed arguments the original is built with.
DerivedSeeds == { FromInt(1), FromInt(123), FromInt(0 - 12345) }

\* The original object is constructed.
InitDerived ==
  /\ kgen \in { << Construct(x) >> : x \in DerivedSeeds }
  /\ khow = "none"
  /\ kscript = <<>>
  /\ kout = << <<>>, <<>> >>
  /\ kprev = kgen
  /\ kwho = 0
  /\ RandomIdle /\ InjectIdle /\ FactoryIdle /\ RegistryIdle /\ RestIdle

\* Variant of KStore for a second object that is the original itself.
KStoreAliased(g, st) == [h \in 1..Len(kgen) |-> st]

\* this.seed = ... on object g: each object has its own field.
KStore(g, st) == [kgen EXCEPT ![g] = st]

\* The original is used for some draws before the second object exists.
Live ==
  /\ khow = "none"
  /\ kgen[1].draws < MaxWarm
  /\ kgen' = << Next(kgen[1]).st >>
  /\ kprev' = kgen'
  /\ UNCHANGED << khow, kscript, kout, kwho, randomVars, injectVars, factoryVars, registryVars, restVars >>

\* The objects after rng2 = rng1.clone(), r being the outcome of the call.
Cloned(r) == << r.st, r.val >>

\* const rng2 = rng1.clone()
TakeClone ==
  /\ khow = "none"
  /\ kgen' = Cloned(Clone(kgen[1]))
  /\ kprev' = kgen'
  /\ khow' = "clone"
  /\ UNCHANGED << kscript, kout, kwho, randomVars, injectVars, factoryVars, registryVars, restVars >>

\* const rng2 = new SeededRandom(x); rng1.reset(x)
ResetBesideFresh ==
  /\ khow = "none"
  /\ \E x \in FnSeedInputs : kgen' = << Reset(kgen[1], <<x>>).st, Construct(x) >>
  /\ kprev' = kgen'
  /\ khow' = "reset"
  /\ UNCHANGED << kscript, kout, kwho, randomVars, injectVars, factoryVars, registryVars, restVars >>

\* The call on object g had outcome r.
KRan(g, r) ==
  /\ kprev' = kgen
  /\ kgen' = KStore(g, r.st)
  /\ kout' = [kout EXCEPT ![g] = Append(@, Observed(r))]
  /\ kwho' = g

\* The caller of object g makes a call no object has been given yet.
KExtend(g) ==
  /\ khow # "none"
  /\ Len(kout[g]) = Len(kscript)
  /\ Len(kscript) < MaxOps
  /\ \E i \in 1..Len(DerivedCalls) :
       /\ kscript' = Append(kscript, DerivedCalls[i])
       /\ KRan(g, Exec(kgen[g], DerivedCalls[i]))
  /\ UNCHANGED << khow, randomVars, injectVars, factoryVars, registryVars, restVars >>

\* The caller of object g makes the next call of the script on it.
KReplay(g) ==
  /\ khow # "none"
  /\ Len(kout[g]) < Len(kscript)
  /\ KRan(g, Exec(kgen[g], kscript[Len(kout[g]) + 1]))
  /\ UNCHANGED << khow, kscript, randomVars, injectVars, factoryVars, registryVars, restVars >>

NextDerived ==
  \/ Live
  \/ TakeClone
  \/ ResetBesideFresh
  \/ \E g \in Gens : KExtend(g) \/ KReplay(g)

SpecDerived == InitDerived /\ [][NextDerived]_vars

\* ------------------------------------------------------------ chaos modes
\* The chaos mode engine and the injection coordinator are declared
\* (ChaosConfiguration, the parameter shapes, ChaosResult, ChaosInjector)
\* but have no implementation in the sources; the definitions of this
\* section follow sections 4.2 and 4.3 of the design specification and use
\* the generator operations above for every draw.

\* A message of a conversation; parentMessageId 0 stands for none, and
\* offsets lists the delay offsets added to the timestamp so far.
Message(id, agentId, timestamp, parentMessageId) ==
  [id |-> id, agentId |-> agentId, timestamp |-> timestamp,
   parentMessageId |-> parentMessageId, offsets |-> <<>>]

\* ChaosStatistics, the counts the modes modelled here maintain.
Statistics(total, dropped, delayed, reordered) ==
  [totalMessages |-> total, droppedMessages |-> dropped,
   delayedMessages |-> delayed, reorderedMessages |-> reordered]

\* ChaosConfiguration: seed is <<>> when absent and <<n>> when set.
Configuration(mode, seed, parameters) ==
  [mode |-> mode, seed |-> seed, parameters |-> parameters]

\* MessageLossParameters; an empty targetAgents stands for none given.
MessageLoss(lossRate, pattern, targetAgents) ==
  [lossRate |-> lossRate, pattern |-> pattern, targetAgents |-> targetAgents]

\* DelayParameters
Delay(minDelay, maxDelay, distribution, targetAgents) ==
  [minDelay |-> minDelay, maxDelay |-> maxDelay,
   distribution |-> distribution, targetAgents |-> targetAgents]

\* ReorderParameters
Reorder(windowSize, maxDisplacement, preserveCausality) ==
  [windowSize |-> windowSize, maxDisplacement |-> maxDisplacement,
   preserveCausality |-> preserveCausality]

\* What a mode hands back: the generator, the mutated messages and the
\* statistics delta, or the error it ended with.
ModeDone(st, messages, delta) ==
  [st |-> st, ok |-> TRUE, messages |-> messages, delta |-> delta, name |-> "", msg |-> <<>>]
ModeThrew(st, name, msg) ==
  [st |-> st, ok |-> FALSE, messages |-> <<>>, delta |-> Statistics(0, 0, 0, 0),
   name |-> name, msg |-> msg]

\* A mode acts on a message when no targetAgents are given or its agent is
\* one of them.
Eligible(m, targetAgents) == targetAgents = {} \/ m.agentId \in targetAgents

RECURSIVE LossLoop(_, _, _, _, _, _)
\* The message at position k once nextBoolean(lossRate) had outcome r.
LossDecided(r, messages, k, p, kept, dropped) ==
  IF ~r.ok THEN ModeThrew(r.st, r.name, r.msg)
  ELSE IF r.val THEN LossLoop(r.st, messages, k + 1, p, kept, dropped + 1)
  ELSE LossLoop(r.st, messages, k + 1, p, Append(kept, messages[k]), dropped)

\* message-loss, patterns random and selective: in source order, each
\* eligible message is dropped when nextBoolean(lossRate) is true.
LossLoop(st, messages, k, p, kept, dropped) ==
  IF k > Len(messages)
  THEN ModeDone(st, kept, Statistics(0, dropped, 0, 0))
  ELSE IF ~Eligible(messages[k], p.targetAgents)
  THEN LossLoop(st, messages, k + 1, p, Append(kept, messages[k]), dropped)
  ELSE LossDecided(NextBoolean(st, p.lossRate), messages, k, p, kept, dropped)

\* The message m with the offset added to its timestamp.
Delayed(m, offset) == [m EXCEPT !.offsets = Append(@, offset)]

RECURSIVE DelayLoop(_, _, _, _, _, _)
\* The message at position k once the offset was sampled with outcome r.
DelaySampled(r, messages, k, p, done, delayed) ==
  IF ~r.ok THEN ModeThrew(r.st, r.name, r.msg)
  ELSE DelayLoop(r.st, messages, k + 1, p, Append(done, Delayed(messages[k], r.val)), delayed + 1)

\* The offset of one message: uniform -> nextFloat(minDelay, maxDelay),
\* exponential -> exponential(1 / ((min + max) / 2)), whose rate is kept as
\* the pair it is computed from.
SampleOffset(st, p) ==
  IF p.distribution = "uniform"
  THEN NextFloat(st, p.minDelay, p.maxDelay)
  ELSE Rated(Next(st), <<p.minDelay, p.maxDelay>>)

\* delay: in source order, each eligible message gets an offset.
DelayLoop(st, messages, k, p, done, delayed) ==
  IF k > Len(messages)
  THEN ModeDone(st, done, Statistics(0, 0, delayed, 0))
  ELSE IF ~Eligible(messages[k], p.targetAgents)
  THEN DelayLoop(st, messages, k + 1, p, Append(done, messages[k]), delayed)
  ELSE DelaySampled(SampleOffset(st, p), messages, k, p, done, delayed)

\* Where the message at the 0-based position pos is once the positions i
\* and j are exchanged.
PositionAfter(pos, i, j) == IF pos = i THEN j ELSE IF pos = j THEN i ELSE pos

\* The 0-based positions of the message that the message at position a
\* names as its parent (none when it names none or the parent is gone).
ParentPositions(messages, a) ==
  { k \in 0..(Len(messages) - 1) :
      /\ messages[a + 1].parentMessageId # 0
      /\ messages[k + 1].id = messages[a + 1].parentMessageId }

\* Exchanging i and j would move the message now at position a before the
\* message it names as its parent.
MovesBeforeParent(messages, a, i, j) ==
  \E k \in ParentPositions(messages, a) :
    PositionAfter(k, i, j) > PositionAfter(a, i, j)

\* "skip any swap that would move a message before its parentMessageId's
\* current position": the swap moves the messages at i and at j.
BreaksCausality(messages, i, j) ==
  MovesBeforeParent(messages, i, i, j) \/ MovesBeforeParent(messages, j, i, j)

\* The current message i is swapped with the one d positions ahead when that
\* one is another message inside the window and the conversation, and
\* causality, if it is to be preserved, allows it.
Swappable(messages, i, d, p) ==
  /\ d > 0
  /\ d < p.windowSize
  /\ i + d < Len(messages)
  /\ ~(p.preserveCausality /\ BreaksCausality(messages, i, i + d))

RECURSIVE ReorderLoop(_, _, _, _, _)
\* The window at position i once d = nextInt(0, maxDisplacement) had outcome r.
ReorderPicked(r, messages, i, p, swaps) ==
  IF ~r.ok THEN ModeThrew(r.st, r.name, r.msg)
  ELSE IF Swappable(messages, i, r.val, p)
  THEN ReorderLoop(r.st, Swap(messages, i, i + r.val), i + 1, p, swaps + 1)
  ELSE ReorderLoop(r.st, messages, i + 1, p, swaps)

\* reorder: the window slides over the messages; at each position a
\* displacement is drawn and the current message swapped with the one that
\* many positions ahead.
ReorderLoop(st, messages, i, p, swaps) ==
  IF i >= Len(messages)
  THEN ModeDone(st, messages, Statistics(0, 0, 0, swaps))
  ELSE ReorderPicked(NextInt(st, 0, p.maxDisplacement), messages, i, p, swaps)

\* "throws ConfigurationError only for structurally invalid parameters (rate
\* outside [0,1], min > max, negative windowSize/duration)".
Invalid(c) ==
  CASE c.mode = "message-loss" ->
         c.parameters.lossRate.num < 0 \/ c.parameters.lossRate.num > c.parameters.lossRate.den
    [] c.mode = "delay" -> c.parameters.minDelay > c.parameters.maxDelay
    [] c.mode = "reorder" -> c.parameters.windowSize < 0

\* One mode applied to the messages with the shared generator.
ApplyMode(st, messages, c) ==
  IF Invalid(c) THEN ModeThrew(st, "ConfigurationError", <<c.mode>>)
  ELSE CASE c.mode = "message-loss" -> LossLoop(st, messages, 1, c.parameters, <<>>, 0)
         [] c.mode = "delay" -> DelayLoop(st, messages, 1, c.parameters, <<>>, 0)
         [] c.mode = "reorder" -> ReorderLoop(st, messages, 0, c.parameters, 0)

\* ------------------------------------------------- injection coordinator
\* The statistics so far with a mode's delta merged in.
Merged(statistics, delta) ==
  Statistics(statistics.totalMessages,
             statistics.droppedMessages + delta.droppedMessages,
             statistics.delayedMessages + delta.delayedMessages,
             statistics.reorderedMessages + delta.reorderedMessages)

\* The positions of the configurations that set a seed.
SeededConfigs(cfgs) == { k \in 1..Len(cfgs) : cfgs[k].seed # <<>> }

\* The first of these positions.
FirstSeeded(cfgs) ==
  CHOOSE k \in SeededConfigs(cfgs) : \A j \in SeededConfigs(cfgs) : k <= j

\* "seeded once from the first config with an explicit seed (or a default)"
InitialSeed(cfgs, default) ==
  IF SeededConfigs(cfgs) = {} THEN default ELSE cfgs[FirstSeeded(cfgs)].seed[1]

\* "subsequent configs' own seed fields are used only to reseed if
\* explicitly set"
Reseeded(st, c, pc) ==
  IF pc > 1 /\ c.seed # <<>> THEN Reset(st, <<FromInt(c.seed[1])>>).st ELSE st

\* ChaosResult, with the fields verifyDeterministicChaos compares.
ChaosResult(mode, seed, statistics) ==
  [mode |-> mode, seed |-> seed,
   affectedMessages |-> statistics.droppedMessages + statistics.delayedMessages
                          + statistics.reorderedMessages,
   statistics |-> statistics]

\* Conversations have at most MaxMsgs messages; one more has ten.
MaxMsgs == 3

\* Two agents speak in turn.
AgentOf(k) == IF k % 2 = 1 THEN "agent-1" ELSE "agent-2"

\* The conversation of n messages in which message k answers parent[k] (0:
\* no message); timestamps are non-decreasing.
Conversation(n, parent) ==
  [k \in 1..n |-> Message(k, AgentOf(k), 1000 + 100 * k, parent[k])]

\* Every message follows the message it answers.
Conversations ==
  UNION { { Conversation(n, parent) :
              parent \in { f \in [1..n -> 0..n] : \A k \in 1..n : f[k] < k } } :
          n \in 0..MaxMsgs }

\* "conversation of 10 messages from 2 agents"
TenMessages == Conversation(10, [k \in 1..10 |-> k - 1])

\* Seeds given to configurations.
ChaosSeeds == {1, 7, 42, 12345, 30000, 40000}

\* The configuration lists handed to inject (a tuple: the lists are indexed).
ConfigLists ==
  << << Configuration("message-loss", <<7>>, MessageLoss(Prob(1, 1), "random", {})) >>,
     << Configuration("message-loss", <<42>>, MessageLoss(Prob(1, 2), "random", {})),
        Configuration("delay", <<>>, Delay(100, 1000, "uniform", {})) >>,
     << Configuration("message-loss", <<42>>, MessageLoss(Prob(3, 10), "selective", {"agent-2"})),
        Configuration("delay", <<43>>, Delay(100, 2000, "exponential", {"agent-1"})) >>,
     << Configuration("delay", <<1>>, Delay(100, 100, "uniform", {})) >>,
     << Configuration("delay", <<1>>, Delay(200, 100, "uniform", {})) >>,
     << Configuration("message-loss", <<>>, MessageLoss(Prob(1, 2), "random", {})) >>,
     << Configuration("message-loss", <<5>>, MessageLoss(Prob(3, 2), "random", {})) >> >>

\* The reorder configurations handed to inject, alone in their list.
ReorderLists ==
  { << Configuration("reorder", <<s>>, Reorder(w, d, c)) >> :
      s \in ChaosSeeds, w \in {1, 3}, d \in {0, 2}, c \in BOOLEAN }

\* inject is called twice with the same conversation and the same list.
InitInject ==
  /\ jconv \in Conversations \cup {TenMessages}
  /\ \/ \E i \in 1..Len(ConfigLists) : jcfgs = ConfigLists[i]
     \/ jcfgs \in ReorderLists
  /\ jdefault \in [Gens -> {1, 2}]
  /\ jgen = [r \in Gens |-> Construct(FromInt(1))]
  /\ jrun = [r \in Gens |-> RunAt(0, <<>>, <<>>, "idle", <<>>, <<>>)]
  /\ RandomIdle /\ DerivedIdle /\ FactoryIdle /\ RegistryIdle /\ RestIdle

\* Variant of JStore for a generator whose seed is shared by the runs.
JStoreStatic(r, st) == [h \in Gens |-> [jgen[h] EXCEPT !.seed = st.seed]]

\* The generator of run r is replaced or advanced: each run owns its own.
JStore(r, st) == [jgen EXCEPT ![r] = st]

\* Run r creates its generator and takes the conversation.
Begin(r) ==
  /\ jrun[r].status = "idle"
  /\ jgen' = JStore(r, Construct(FromInt(InitialSeed(jcfgs, jdefault[r]))))
  /\ jrun' = [jrun EXCEPT ![r] =
                RunAt(1, jconv, Statistics(Len(jconv), 0, 0, 0), "running", <<>>, <<>>)]
  /\ UNCHANGED << jconv, jcfgs, jdefault, randomVars, derivedVars, factoryVars, registryVars, restVars >>

\* Run r applied its current configuration with outcome o.
Stepped(r, o) ==
  /\ jgen' = JStore(r, o.st)
  /\ jrun' = [jrun EXCEPT ![r] =
                IF o.ok
                THEN RunAt(@.pc + 1, o.messages, Merged(@.statistics, o.delta),
                           "running", <<>>, <<>>)
                ELSE RunAt(@.pc, @.messages, @.statistics, "failed", <<o.name>>, <<>>)]

\* Run r applies its next configuration to its already mutated messages.
Step(r) ==
  /\ jrun[r].status = "running"
  /\ jrun[r].pc <= Len(jcfgs)
  /\ Stepped(r, ApplyMode(Reseeded(jgen[r], jcfgs[jrun[r].pc], jrun[r].pc),
                          jrun[r].messages, jcfgs[jrun[r].pc]))
  /\ UNCHANGED << jconv, jcfgs, jdefault, randomVars, derivedVars, factoryVars, registryVars, restVars >>

\* Run r returns the mutated conversation and the ChaosResult.
Finish(r) ==
  /\ jrun[r].status = "running"
  /\ jrun[r].pc > Len(jcfgs)
  /\ jrun' = [jrun EXCEPT ![r] =
                RunAt(@.pc, @.messages, @.statistics, "done", <<>>,
                      << ChaosResult(jcfgs[1].mode,
                                     InitialSeed(jcfgs, jdefault[r]),
                                     @.statistics) >>)]
  /\ UNCHANGED << jconv, jcfgs, jdefault, jgen, randomVars, derivedVars, factoryVars, registryVars, restVars >>

NextInject == \E r \in Gens : Begin(r) \/ Step(r) \/ Finish(r)

SpecInject == InitInject /\ [][NextInject]_vars

\* ---------------------------------------------------- ConversationFactory
\* The generator calls of createAgents for one agent, in the order made:
\* generateCapabilities (nextInt(2, 5), shuffle) and the framework choice.
AgentPlan ==
  << Call("nextInt", <<2, 5>>),
     Call("shuffle", << << "text-generation", "code-execution", "data-analysis",
                           "web-search", "file-operations", "api-calls" >> >>),
     Call("choice", << << "autogen", "langchain", "crew" >> >>) >>

\* The templates of generateMessageContent, each with the calls (by their
\* position in ContentPlan) whose value String.replace puts into it.
Templates ==
  << [text |-> "Processing request for {task}", slots |-> {2}],
     [text |-> "Analysis complete: {result}", slots |-> {3}],
     [text |-> "Initiating {action} on {target}", slots |-> {4, 5}],
     [text |-> "Status update: {status}", slots |-> {6}],
     [text |-> "Error encountered: {error}", slots |-> {7}],
     [text |-> "Validation passed for {item}", slots |-> {8}],
     [text |-> "Requesting approval for {operation}", slots |-> {9}],
     [text |-> "Completed {task} successfully", slots |-> {2}] >>

\* The generator calls of generateMessageContent: the template, then one
\* choice per replace, whether or not the template holds its placeholder.
ContentPlan ==
  << Call("choice", <<Templates>>),
     Call("choice", << << "data processing", "validation", "optimization" >> >>),
     Call("choice", << << "success", "partial", "pending" >> >>),
     Call("choice", << << "scan", "analyze", "transform" >> >>),
     Call("choice", << << "dataset", "model", "pipeline" >> >>),
     Call("choice", << << "running", "completed", "waiting" >> >>),
     Call("choice", << << "timeout", "invalid input", "resource limit" >> >>),
     Call("choice", << << "configuration", "parameters", "constraints" >> >>),
     Call("choice", << << "deployment", "rollback", "scaling" >> >>) >>

\* The generator calls of createMessages for one message: the delay when
\* simulateDelays, the content, the role, generateMessageMetadata when
\* includeMetadata.
MessagePlan(o) ==
  (IF o.simulateDelays THEN << Call("nextInt", <<100, 2000>>) >> ELSE <<>>)
  \o ContentPlan
  \o << Call("choice", << << "user", "assistant", "system" >> >>) >>
  \o (IF o.includeMetadata
      THEN << Call("nextInt", <<10, 500>>), Call("nextInt", <<0, 3>>),
              Call("next", <<>>), Call("nextInt", <<10, 200>>) >>
      ELSE <<>>)

\* The generator calls of generateMetadata.
MetadataPlan(o) ==
  IF o.includeMetadata
  THEN << Call("choice", << << "dev", "staging", "prod" >> >>),
          Call("choice", << << "us-east-1", "eu-west-1", "ap-southeast-1" >> >>),
          Call("shuffle", << << "test", "automated", "synthetic", "validation" >> >>) >>
  ELSE <<>>

RECURSIVE Repeated(_, _)
\* The plan made n times in a row.
Repeated(plan, n) == IF n <= 0 THEN <<>> ELSE plan \o Repeated(plan, n - 1)

\* The generator calls of createConversation(o), in the order made.
ConversationPlan(o) ==
  Repeated(AgentPlan, o.agentCount) \o Repeated(MessagePlan(o), o.messageCount)
  \o MetadataPlan(o)

RECURSIVE RunPlan(_, _, _, _)
\* The call at position k of the plan had outcome r.
PlanStep(r, plan, k, vals) ==
  IF ~r.ok THEN r ELSE RunPlan(r.st, plan, k + 1, Append(vals, r.val))

\* The calls of the plan made one after the other on this.rng; the value
\* is the sequence of the values returned.
RunPlan(st, plan, k, vals) ==
  IF k > Len(plan) THEN Return(st, vals)
  ELSE PlanStep(Exec(st, plan[k]), plan, k, vals)

\* generateId(prefix): `${prefix}_${++idCounter}_${Date.now()}`
GenerateId(prefix, counter, clock) == << prefix, counter, clock >>

\* Where the values of agent i and of message j start in the values.
AgentBase(i) == Len(AgentPlan) * (i - 1)
MessageBase(o, j) == Len(AgentPlan) * o.agentCount + Len(MessagePlan(o)) * (j - 1)
ContentBase(o, j) == MessageBase(o, j) + (IF o.simulateDelays THEN 1 ELSE 0)

\* The agent createAgents pushes at index i - 1.
AgentAt(i, vals, counter, clock) ==
  [id |-> GenerateId("agent", counter + i, clock),
   name |-> << "Agent-", i >>,
   type |-> << "coordinator", "worker", "validator", "observer" >>[((i - 1) % 4) + 1],
   capabilities |-> SubSeq(vals[AgentBase(i) + 2], 1, vals[AgentBase(i) + 1]),
   metadata |-> [version |-> "1.0.0", framework |-> vals[AgentBase(i) + 3]]]

\* Variant of StartTime that starts the message clock at Date.now().
StartTimeNow(baseTimestamp, clock) == clock

\* let currentTime = baseTimestamp
StartTime(baseTimestamp, clock) == baseTimestamp

RECURSIVE CurrentTime(_, _, _, _)
\* currentTime once message j is pushed: the delays so far added up.
CurrentTime(o, j, vals, clock) ==
  IF j <= 0 THEN StartTime(o.baseTimestamp, clock)
  ELSE CurrentTime(o, j - 1, vals, clock)
         + (IF o.simulateDelays THEN vals[MessageBase(o, j) + 1] ELSE 0)

\* The template chosen with the values replace puts into its placeholders.
ContentAt(o, j, vals) ==
  [text |-> vals[ContentBase(o, j) + 1].text,
   fills |-> [k \in vals[ContentBase(o, j) + 1].slots |-> vals[ContentBase(o, j) + k]]]

\* The message createMessages pushes at index j - 1; an absent
\* parentMessageId or metadata is <<>>.
MessageAt(o, j, vals, counter, clock) ==
  [id |-> GenerateId("msg", counter + o.agentCount + j, clock),
   agentId |-> GenerateId("agent", counter + ((j - 1) % o.agentCount) + 1, clock),
   content |-> ContentAt(o, j, vals),
   timestamp |-> CurrentTime(o, j, vals, clock),
   role |-> vals[ContentBase(o, j) + 10],
   parentMessageId |->
     IF j > 1 THEN << GenerateId("msg", counter + o.agentCount + j - 1, clock) >> ELSE <<>>,
   metadata |->
     IF o.includeMetadata
     THEN << [processingTime |-> vals[ContentBase(o, j) + 11],
              retryCount |-> vals[ContentBase(o, j) + 12],
              confidence |-> vals[ContentBase(o, j) + 13],
              tokens |-> vals[ContentBase(o, j) + 14]] >>
     ELSE <<>>]

\* The metadata of the conversation, <<>> when absent.
MetadataAt(o, vals, counter, clock) ==
  IF o.includeMetadata
  THEN << [version |-> "1.0.0",
           environment |-> vals[MessageBase(o, o.messageCount + 1) + 1],
           region |-> vals[MessageBase(o, o.messageCount + 1) + 2],
           sessionId |-> GenerateId("session", counter + o.agentCount + o.messageCount + 2, clock),
           tags |-> SubSeq(vals[MessageBase(o, o.messageCount + 1) + 3], 1, 2)] >>
  ELSE <<>>

\* The Conversation createConversation returns, r being the outcome of its
\* generator calls.
Assembled(r, o, counter, clock) ==
  IF ~r.ok THEN r
  ELSE Return(r.st,
         [id |-> GenerateId("conv", counter + o.agentCount + o.messageCount + 1, clock),
          format |-> "custom",
          agents |-> [i \in 1..o.agentCount |-> AgentAt(i, r.val, counter, clock)],
          messages |-> [j \in 1..o.messageCount |-> MessageAt(o, j, r.val, counter, clock)],
          startTime |-> o.baseTimestamp,
          endTime |-> IF o.messageCount > 0
                      THEN CurrentTime(o, o.messageCount, r.val, clock)
                      ELSE o.baseTimestamp,
          metadata |-> MetadataAt(o, r.val, counter, clock)])

\* createConversation(options) on a factory whose generator is st.
CreateConversation(st, o, counter, clock) ==
  Assembled(RunPlan(st, ConversationPlan(o), 1, <<>>), o, counter, clock)

\* The ids one createConversation(o) generates.
IdsMade(o) == o.agentCount + o.messageCount + 1 + (IF o.includeMetadata THEN 1 ELSE 0)

\* createConversation is asked for at most MaxCount agents and messages.
MaxCount == 2

\* The options createConversation is called with.
FactoryOptions ==
  [agentCount : 1..MaxCount, messageCount : 0..MaxCount, baseTimestamp : {1000000},
   simulateDelays : BOOLEAN, includeMetadata : BOOLEAN]

\* Two factories are constructed, each from its own seed.
InitFactory ==
  /\ cseed \in { f \in [Gens -> {100, 12345}] : f[1] = 100 }
  /\ crng = [f \in Gens |-> Construct(FromInt(cseed[f]))]
  /\ cmade = [f \in Gens |-> <<>>]
  /\ idCounter = 0
  /\ now = 1
  /\ RandomIdle /\ DerivedIdle /\ InjectIdle /\ RegistryIdle /\ RestIdle

\* createConversation(o) on factory f returned with outcome r.
Created(f, o, r) ==
  /\ crng' = [crng EXCEPT ![f] = r.st]
  /\ cmade' = [cmade EXCEPT ![f] = << o, r.val >>]
  /\ idCounter' = idCounter + IdsMade(o)

\* Factory f is asked for a conversation, a millisecond after the last call.
Create(f) ==
  /\ cmade[f] = <<>>
  /\ now' = now + 1
  /\ \E o \in FactoryOptions : Created(f, o, CreateConversation(crng[f], o, idCounter, now'))
  /\ UNCHANGED << cseed, randomVars, derivedVars, injectVars, registryVars, restVars >>

NextFactory == \E f \in Gens : Create(f)

SpecFactory == InitFactory /\ [][NextFactory]_vars

\* ============================================================ parser registry
\* packages/engine/src/registry/parser-registry.ts.  A parser is a plugin: what
\* its detect, validate and parse do with a content is an input of the model.
\* A content is the index of a document in Documents, which fixes what parse
\* makes of it; a parser is described by the contents its detect accepts or
\* throws on and the contents its validate rejects or throws on.

\* An array-typed field: whether the value is an array, and its elements.
Items(items) == [array |-> TRUE, items |-> items]
NotAnArray == [array |-> FALSE, items |-> <<>>]

\* An agent and a message of a parsed conversation, with the fields the
\* registry reads.
ParsedAgent(id) == [id |-> id]
ParsedMessage(id, agentId, content) == [id |-> id, agentId |-> agentId, content |-> content]

\* What parser.parse(content) does: resolve to a conversation, resolve to
\* undefined, or reject.
Resolves(id, agents, messages) ==
  [kind |-> "conversation", conv |-> [id |-> id, agents |-> agents, messages |-> messages]]
ResolvesUndefined == [kind |-> "undefined", conv |-> <<>>]
Rejects == [kind |-> "throws", conv |-> <<>>]

\* The documents handed to parse, by content.
Documents ==
  << Resolves("conv-1", Items(<< ParsedAgent("agent-1"), ParsedAgent("agent-2") >>),
              Items(<< ParsedMessage("m1", "agent-1", "hello"),
                       ParsedMessage("m2", "agent-2", "hi") >>)),
     Resolves("conv-2", Items(<< ParsedAgent("agent-1") >>),
              Items(<< ParsedMessage("m1", "agent-1", "hello"),
                       ParsedMessage("m2", "agent-3", "hi") >>)),
     Resolves("conv-3", Items(<<>>), Items(<< ParsedMessage("m1", "agent-1", "hello") >>)),
     Resolves("", Items(<< ParsedAgent("agent-1") >>),
              Items(<< ParsedMessage("m1", "agent-1", "hello") >>)),
     Resolves("conv-5", Items(<< ParsedAgent("agent-1") >>),
              Items(<< ParsedMessage("m1", "agent-1", "") >>)),
     Resolves("conv-6", Items(<< ParsedAgent("") >>),
              Items(<< ParsedMessage("m1", "", "hello") >>)),
     Resolves("conv-7", Items(<< ParsedAgent("agent-1") >>), NotAnArray),
     Resolves("conv-8", NotAnArray, Items(<< ParsedMessage("m1", "agent-1", "hello") >>)),
     Resolves("conv-9", Items(<<>>), Items(<<>>)),
     Resolves("conv-10", Items(<< ParsedAgent("agent-1") >>),
              Items(<< ParsedMessage("", "agent-1", "hello") >>)),
     ResolvesUndefined,
     Rejects >>

Contents == 1..Len(Documents)

\* The methods of the FormatParser interface.
Methods == {"detect", "parse", "serialize", "validate"}

FormatParser(id, name, formats, methods, detects, detectThrows, rejects, validateThrows) ==
  [id |-> id, name |-> name, formats |-> formats, methods |-> methods,
   detects |-> detects, detectThrows |-> detectThrows,
   rejects |-> rejects, validateThrows |-> validateThrows]

\* The parsers handed to register: three well-formed ones, two of which
\* claim the format "json", one that reuses an id, and ill-formed ones.
ParserPool ==
  << FormatParser("autogen", "AutoGen", << "autogen", "json" >>, Methods,
                  { c \in Contents : c % 2 = 1 }, {}, {}, {}),
     FormatParser("langchain", "LangChain", << "langchain" >>, Methods,
                  Contents, {2, 3}, {9}, {10}),
     FormatParser("crewai", "CrewAI", << "crewai", "json" >>, Methods,
                  Contents, {}, {1}, {}),
     FormatParser("autogen", "AutoGen v2", << "autogen2", "autogen2" >>, Methods,
                  { c \in Contents : c % 2 = 0 }, {}, {}, {}),
     FormatParser("", "Nameless id", << "x" >>, Methods, {}, {}, {}, {}),
     FormatParser("p6", "", << "x" >>, Methods, {}, {}, {}, {}),
     FormatParser("p7", "No formats", <<>>, Methods, {}, {}, {}, {}),
     FormatParser("p8", "No serialize", << "x" >>, Methods \ {"serialize"}, {}, {}, {}, {}) >>

\* The format arguments of parse and getParser; "" stands for an absent one.
Formats == {"", "autogen", "json", "langchain", "crewai", "autogen2", "xml"}

\* How a call on the registry ended: with a value, or with an error of a
\* class.  raw is <<the conversation the parser resolved to>> when
\* parser.parse was reached and resolved to one.
Value(v, raw) == [ok |-> TRUE, val |-> v, name |-> "", msg |-> "", raw |-> raw]
Raise(name, msg, raw) == [ok |-> FALSE, val |-> <<>>, name |-> name, msg |-> msg, raw |-> raw]

\* validateParser(parser): <<>> or <<the message of the error thrown>>.
ValidateParser(parser) ==
  IF parser.id = "" THEN << "Parser must have a valid ID" >>
  ELSE IF parser.name = "" THEN << "Parser must have a valid name" >>
  ELSE IF Len(parser.formats) = 0 THEN << "Parser must support at least one format" >>
  ELSE IF "detect" \notin parser.methods THEN << "Parser must implement detect() method" >>
  ELSE IF "parse" \notin parser.methods THEN << "Parser must implement parse() method" >>
  ELSE IF "serialize" \notin parser.methods THEN << "Parser must implement serialize() method" >>
  ELSE IF "validate" \notin parser.methods THEN << "Parser must implement validate() method" >>
  ELSE <<>>

\* this.parsers.has(id), this.parsers.get(id), this.formatMap.has(format).
HasParser(ps, id) == \E k \in 1..Len(ps) : ps[k].id = id
ParserOf(ps, id) == ps[CHOOSE k \in 1..Len(ps) : ps[k].id = id]
HasFormat(fm, format) == \E e \in fm : e[1] = format
FormatsOf(parser) == { parser.formats[k] : k \in 1..Len(parser.formats) }

\* The Map parsers without the entry of id.
RECURSIVE Without(_, _)
Without(ps, id) ==
  IF ps = <<>> THEN <<>>
  ELSE IF Head(ps).id = id THEN Without(Tail(ps), id)
  ELSE << Head(ps) >> \o Without(Tail(ps), id)

\* getParser(format): <<>> or <<the parser>>.
GetParser(ps, fm, format) ==
  IF ~HasFormat(fm, format) THEN <<>>
  ELSE LET id == (CHOOSE e \in fm : e[1] = format)[2]
       IN IF HasParser(ps, id) THEN << ParserOf(ps, id) >> ELSE <<>>

\* The loop of detectFormat from the k-th parser of the Map on: a detect
\* that throws is caught and the loop goes on.
RECURSIVE DetectLoop(_, _, _)
DetectLoop(ps, k, content) ==
  IF k > Len(ps) THEN <<>>
  ELSE IF content \in ps[k].detectThrows THEN DetectLoop(ps, k + 1, content)
  ELSE IF content \in ps[k].detects THEN << ps[k] >>
  ELSE DetectLoop(ps, k + 1, content)

\* The loop of detectFormat without its try/catch: a detect that throws
\* ends the search.
RECURSIVE DetectLoopUncaught(_, _, _)
DetectLoopUncaught(ps, k, content) ==
  IF k > Len(ps) THEN <<>>
  ELSE IF content \in ps[k].detectThrows THEN <<>>
  ELSE IF content \in ps[k].detects THEN << ps[k] >>
  ELSE DetectLoopUncaught(ps, k + 1, content)

\* Variant of DetectFormat whose loop has no try/catch.
DetectFormatUncaught(ps, content) == DetectLoopUncaught(ps, 1, content)

\* detectFormat(content): <<>> or <<the parser>>.
DetectFormat(ps, content) == DetectLoop(ps, 1, content)

\* getStats(): the two counts.
GetStats(ps, fm) == [parserCount |-> Len(ps), formatCount |-> Cardinality(fm)]

\* this.formatMap.set(format, id) for every format of the list.
SetAll(fm, formats, id) ==
  { e \in fm : e[1] \notin formats } \cup { << format, id >> : format \in formats }

\* validateConversation without its last loop.
ValidateConversationUnreferenced(conversation) ==
  IF conversation.id = "" THEN << "Parsed conversation must have an ID" >>
  ELSE IF ~conversation.messages.array THEN << "Parsed conversation must have messages array" >>
  ELSE IF ~conversation.agents.array THEN << "Parsed conversation must have agents array" >>
  ELSE LET messages == conversation.messages.items
       IN IF \E k \in 1..Len(messages) :
               messages[k].id = "" \/ messages[k].agentId = "" \/ messages[k].content = ""
          THEN << "All messages must have id, agentId, and content" >>
          ELSE <<>>

\* validateConversation(conversation): <<>> or <<the message of the
\* ParserExecutionError thrown>>.
ValidateConversation(conversation) ==
  IF conversation.id = "" THEN << "Parsed conversation must have an ID" >>
  ELSE IF ~conversation.messages.array THEN << "Parsed conversation must have messages array" >>
  ELSE IF ~conversation.agents.array THEN << "Parsed conversation must have agents array" >>
  ELSE LET messages == conversation.messages.items
           agents == conversation.agents.items
           agentIds == { agents[k].id : k \in 1..Len(agents) }
       IN IF \E k \in 1..Len(messages) :
               messages[k].id = "" \/ messages[k].agentId = "" \/ messages[k].content = ""
          THEN << "All messages must have id, agentId, and content" >>
          ELSE IF \E k \in 1..Len(messages) : messages[k].agentId \notin agentIds
          THEN << "Message references unknown agent" >>
          ELSE <<>>

\* The try block of parse: parser.parse, validateConversation, and the catch
\* that passes a ParserExecutionError on and wraps anything else in one.
Converted(content) ==
  LET document == Documents[content]
  IN IF document.kind # "conversation"
     THEN Raise("ParserExecutionError", "Failed to parse content", <<>>)
     ELSE LET problem == ValidateConversation(document.conv)
          IN IF problem # <<>>
             THEN Raise("ParserExecutionError", problem[1], << document.conv >>)
             ELSE Value(document.conv, << document.conv >>)

\* parse(content, format).
Parse(ps, fm, content, format) ==
  LET found == IF format # "" THEN GetParser(ps, fm, format) ELSE DetectFormat(ps, content)
  IN IF found = <<>>
     THEN Raise("ParserExecutionError",
                IF format # "" THEN "No parser found for format"
                ELSE "Unable to auto-detect format and no format specified", <<>>)
     ELSE IF content \in found[1].validateThrows
     THEN Raise("Error", "validate threw", <<>>)
     ELSE IF content \in found[1].rejects
     THEN Raise("ParserExecutionError", "Content validation failed", <<>>)
     ELSE Converted(content)

\* The registry after construction.
InitRegistry ==
  /\ parsers = <<>>
  /\ formatMap = {}
  /\ plast = <<>>
  /\ RandomIdle /\ DerivedIdle /\ InjectIdle /\ FactoryIdle /\ RestIdle

\* A call recorded with its arguments and outcome.
Called(op, args, outcome) == [op |-> op, args |-> args, outcome |-> outcome]

\* Variant of register without the check for format conflicts.
RegisterOverlapping(parser) ==
  LET problem == ValidateParser(parser)
  IN /\ IF problem # <<>>
        THEN /\ plast' = Called("register", << parser >>,
                                Raise("ParserRegistrationError", problem[1], <<>>))
             /\ UNCHANGED << parsers, formatMap >>
        ELSE IF HasParser(parsers, parser.id)
        THEN /\ plast' = Called("register", << parser >>,
                                Raise("ParserRegistrationError", "already registered", <<>>))
             /\ UNCHANGED << parsers, formatMap >>
        ELSE /\ parsers' = Append(parsers, parser)
             /\ formatMap' = SetAll(formatMap, FormatsOf(parser), parser.id)
             /\ plast' = Called("register", << parser >>, Value(<<>>, <<>>))
     /\ UNCHANGED << randomVars, derivedVars, injectVars, factoryVars, restVars >>

\* Variant of register that stores the parser before it checks its formats.
RegisterEarly(parser) ==
  LET problem == ValidateParser(parser)
  IN /\ IF problem # <<>>
        THEN /\ plast' = Called("register", << parser >>,
                                Raise("ParserRegistrationError", problem[1], <<>>))
             /\ UNCHANGED << parsers, formatMap >>
        ELSE IF HasParser(parsers, parser.id)
        THEN /\ plast' = Called("register", << parser >>,
                                Raise("ParserRegistrationError", "already registered", <<>>))
             /\ UNCHANGED << parsers, formatMap >>
        ELSE IF \E format \in FormatsOf(parser) : HasFormat(formatMap, format)
        THEN /\ plast' = Called("register", << parser >>,
                                Raise("ParserRegistrationError", "format already handled", <<>>))
             /\ parsers' = Append(parsers, parser)
             /\ UNCHANGED formatMap
        ELSE /\ parsers' = Append(parsers, parser)
             /\ formatMap' = SetAll(formatMap, FormatsOf(parser), parser.id)
             /\ plast' = Called("register", << parser >>, Value(<<>>, <<>>))
     /\ UNCHANGED << randomVars, derivedVars, injectVars, factoryVars, restVars >>

\* register(parser).
Register(parser) ==
  LET problem == ValidateParser(parser)
  IN /\ IF problem # <<>>
        THEN /\ plast' = Called("register", << parser >>,
                                Raise("ParserRegistrationError", problem[1], <<>>))
             /\ UNCHANGED << parsers, formatMap >>
        ELSE IF HasParser(parsers, parser.id)
        THEN /\ plast' = Called("register", << parser >>,
                                Raise("ParserRegistrationError", "already registered", <<>>))
             /\ UNCHANGED << parsers, formatMap >>
        ELSE IF \E format \in FormatsOf(parser) : HasFormat(formatMap, format)
        THEN /\ plast' = Called("register", << parser >>,
                                Raise("ParserRegistrationError", "format already handled", <<>>))
             /\ UNCHANGED << parsers, formatMap >>
        ELSE /\ parsers' = Append(parsers, parser)
             /\ formatMap' = SetAll(formatMap, FormatsOf(parser), parser.id)
             /\ plast' = Called("register", << parser >>, Value(<<>>, <<>>))
     /\ UNCHANGED << randomVars, derivedVars, injectVars, factoryVars, restVars >>

\* unregister(parserId).
Unregister(parserId) ==
  /\ IF ~HasParser(parsers, parserId)
     THEN /\ plast' = Called("unregister", << parserId >>,
                             Raise("ParserRegistrationError", "not found", <<>>))
          /\ UNCHANGED << parsers, formatMap >>
     ELSE /\ formatMap' = { e \in formatMap : e[1] \notin FormatsOf(ParserOf(parsers, parserId)) }
          /\ parsers' = Without(parsers, parserId)
          /\ plast' = Called("unregister", << parserId >>, Value(<<>>, <<>>))
  /\ UNCHANGED << randomVars, derivedVars, injectVars, factoryVars, restVars >>

\* clear().
Clear ==
  /\ parsers' = <<>>
  /\ formatMap' = {}
  /\ plast' = Called("clear", <<>>, Value(<<>>, <<>>))
  /\ UNCHANGED << randomVars, derivedVars, injectVars, factoryVars, restVars >>

\* parse(content, format) leaves the registry as it was.
ParseCall(content, format) ==
  /\ plast' = Called("parse", << content, format >>, Parse(parsers, formatMap, content, format))
  /\ UNCHANGED << parsers, formatMap, randomVars, derivedVars, injectVars, factoryVars, restVars >>

\* detectFormat(content) leaves the registry as it was.
DetectCall(content) ==
  /\ plast' = Called("detectFormat", << content >>, Value(DetectFormat(parsers, content), <<>>))
  /\ UNCHANGED << parsers, formatMap, randomVars, derivedVars, injectVars, factoryVars, restVars >>

NextRegistry ==
  \/ \E k \in 1..Len(ParserPool) : Register(ParserPool[k])
  \/ \E parserId \in { ParserPool[k].id : k \in 1..Len(ParserPool) } : Unregister(parserId)
  \/ Clear
  \/ \E content \in Contents, format \in Formats : ParseCall(content, format)
  \/ \E content \in Contents : DetectCall(content)

SpecRegistry == InitRegistry /\ [][NextRegistry]_vars

\* ============================================================ chaos factory
\* packages/test-utils/src/factories/chaos-factory.ts.  An option is <<>>
\* when the caller omitted it and <<v>> when the caller wrote v.

\* The variables of the generator, injection, factory and registry runs.
coreVars == << randomVars, derivedVars, injectVars, factoryVars, registryVars >>
CoreIdle == RandomIdle /\ DerivedIdle /\ InjectIdle /\ FactoryIdle /\ RegistryIdle

\* x || d for a number, a rate kept as a fraction, a string and a boolean.
OrNumber(x, d) == IF x = <<>> THEN d ELSE IF x[1] = 0 THEN d ELSE x[1]
OrRate(x, d) == IF x = <<>> THEN d ELSE IF x[1].num = 0 THEN d ELSE x[1]
OrText(x, d) == IF x = <<>> THEN d ELSE IF x[1] = "" THEN d ELSE x[1]
OrFlag(x, d) == IF x = <<>> THEN d ELSE IF ~x[1] THEN d ELSE x[1]

\* x !== false
NotFalse(x) == IF x = <<>> THEN TRUE ELSE x[1]

\* The ChaosConfiguration a create method returns; probability is <<>> when
\* the method sets none.
Returned(mode, seed, probability, parameters) ==
  [mode |-> mode, seed |-> seed, probability |-> probability, parameters |-> parameters]

\* createMessageLoss(options), Date.now() reading clock.
CreateMessageLoss(options, clock) ==
  LET parameters == [lossRate |-> OrRate(options.lossRate, Prob(1, 10)),
                     pattern |-> OrText(options.pattern, "random"),
                     targetAgents |-> options.targetAgents]
  IN Returned("message-loss", OrNumber(options.seed, clock),
              << parameters.lossRate >>, parameters)

\* createDelay(options)
CreateDelay(options, clock) ==
  LET parameters == [minDelay |-> OrNumber(options.minDelay, 100),
                     maxDelay |-> OrNumber(options.maxDelay, 2000),
                     distribution |-> OrText(options.distribution, "uniform"),
                     targetAgents |-> options.targetAgents]
  IN Returned("delay", OrNumber(options.seed, clock), <<>>, parameters)

\* createReorder(options)
CreateReorder(options, clock) ==
  LET parameters == [windowSize |-> OrNumber(options.windowSize, 5),
                     maxDisplacement |-> OrNumber(options.maxDisplacement, 3),
                     preserveCausality |-> NotFalse(options.preserveCausality)]
  IN Returned("reorder", OrNumber(options.seed, clock), <<>>, parameters)

\* createCorruption(options)
CreateCorruption(options, clock) ==
  LET parameters == [corruptionRate |-> OrRate(options.corruptionRate, Prob(1, 20)),
                     corruptionType |-> OrText(options.corruptionType, "scramble"),
                     severity |-> OrText(options.severity, "medium")]
  IN Returned("corruption", OrNumber(options.seed, clock),
              << parameters.corruptionRate >>, parameters)

\* createAgentFailure(options)
CreateAgentFailure(options, clock) ==
  LET parameters == [failureRate |-> OrRate(options.failureRate, Prob(1, 10)),
                     failureType |-> OrText(options.failureType, "crash"),
                     duration |-> OrNumber(options.duration, 5000),
                     targetAgents |-> options.targetAgents]
  IN Returned("agent-failure", OrNumber(options.seed, clock),
              << parameters.failureRate >>, parameters)

\* createNetworkPartition(options); a partition list is never falsy.
CreateNetworkPartition(options, clock) ==
  LET parameters == [partitions |-> IF options.partitions = <<>>
                                    THEN << {"agent1"}, {"agent2", "agent3"} >>
                                    ELSE options.partitions[1],
                     duration |-> OrNumber(options.duration, 10000),
                     allowPartialDelivery |-> OrFlag(options.allowPartialDelivery, FALSE)]
  IN Returned("network-partition", OrNumber(options.seed, clock), <<>>, parameters)

\* The values callers write for the options, and <<>> for an omitted one.
Omitted == <<>>
RateOptions == { Omitted, << Prob(0, 1) >>, << Prob(1, 2) >>, << Prob(1, 1) >>, << Prob(3, 2) >> }
SeedOptions == { Omitted, << 0 >>, << 5000 >> }
DelayOptions == { Omitted, << 0 >>, << 50 >>, << 3000 >> }
SizeOptions == { Omitted, << 0 >>, << 1 >> }
FlagOptions == { Omitted, << FALSE >>, << TRUE >> }
AgentOptions == { Omitted, << {"agent-1"} >> }

\* The values Date.now() returns.
Clock == { 1000001, 1000002 }

\* A ChaosFactory holds no state; no create method has been called.
InitChaos ==
  /\ hmade = <<>>
  /\ CoreIdle /\ HeapIdle /\ ViolationIdle /\ LangIdle

\* The create method was called with options and returned config.
Made(method, options, config) == [method |-> method, options |-> options, config |-> config]

MessageLossCall ==
  \E options \in [lossRate : RateOptions, pattern : { Omitted, << "burst" >> },
                  targetAgents : AgentOptions, seed : SeedOptions], clock \in Clock :
    /\ hmade' = Made("createMessageLoss", options, CreateMessageLoss(options, clock))
    /\ UNCHANGED << coreVars, heapVars, violationVars, langVars >>

DelayCall ==
  \E options \in [minDelay : DelayOptions, maxDelay : DelayOptions,
                  distribution : { Omitted, << "exponential" >> },
                  targetAgents : { Omitted }, seed : SeedOptions], clock \in Clock :
    /\ hmade' = Made("createDelay", options, CreateDelay(options, clock))
    /\ UNCHANGED << coreVars, heapVars, violationVars, langVars >>

ReorderCall ==
  \E options \in [windowSize : SizeOptions, maxDisplacement : SizeOptions,
                  preserveCausality : FlagOptions, seed : SeedOptions], clock \in Clock :
    /\ hmade' = Made("createReorder", options, CreateReorder(options, clock))
    /\ UNCHANGED << coreVars, heapVars, violationVars, langVars >>

CorruptionCall ==
  \E options \in [corruptionRate : RateOptions, corruptionType : { Omitted, << "truncate" >> },
                  severity : { Omitted, << "high" >> }, seed : SeedOptions], clock \in Clock :
    /\ hmade' = Made("createCorruption", options, CreateCorruption(options, clock))
    /\ UNCHANGED << coreVars, heapVars, violationVars, langVars >>

AgentFailureCall ==
  \E options \in [failureRate : RateOptions, failureType : { Omitted, << "slow" >> },
                  duration : DelayOptions, targetAgents : { Omitted },
                  seed : SeedOptions], clock \in Clock :
    /\ hmade' = Made("createAgentFailure", options, CreateAgentFailure(options, clock))
    /\ UNCHANGED << coreVars, heapVars, violationVars, langVars >>

NetworkPartitionCall ==
  \E options \in [partitions : { Omitted, << << {"agent-1"}, {"agent-2"} >> >> },
                  duration : DelayOptions, allowPartialDelivery : FlagOptions,
                  seed : SeedOptions], clock \in Clock :
    /\ hmade' = Made("createNetworkPartition", options, CreateNetworkPartition(options, clock))
    /\ UNCHANGED << coreVars, heapVars, violationVars, langVars >>

NextChaos ==
  \/ MessageLossCall
  \/ DelayCall
  \/ ReorderCall
  \/ CorruptionCall
  \/ AgentFailureCall
  \/ NetworkPartitionCall

SpecChaos == InitChaos /\ [][NextChaos]_vars

\* ============================================================ shuffle's caller
\* seeded-random.ts shuffle, seen from the caller: arrays are objects, heap
\* lists them by reference, and the caller keeps the reference it passed.

\* const result = [...array]: a new array with the elements of array.
Spread(h, array) == Append(h, h[array])

\* shuffle(array) on the heap h: the heap, the reference returned and the
\* generator afterwards.
ShuffleOnHeap(st, h, array) ==
  LET copied == Spread(h, array)
      result == Len(copied)
      r == ShuffleLoop(st, copied[result], Len(copied[result]) - 1)
  IN [heap |-> [copied EXCEPT ![result] = r.val], ret |-> result, st |-> r.st]

\* The caller holds one array and a generator.
InitHeap ==
  /\ \E xs \in Arrays : heap = << xs >>
  /\ xarg = 1
  /\ xret = 0
  /\ \E x \in SeedInputs : xgen = Construct(x)
  /\ CoreIdle /\ ChaosIdle /\ ViolationIdle /\ LangIdle

\* Before the call the generator is used for some draws.
HeapWarm ==
  /\ xret = 0
  /\ xgen.draws < MaxWarm
  /\ xgen' = Next(xgen).st
  /\ UNCHANGED << heap, xarg, xret, coreVars, chaosVars, violationVars, langVars >>

\* The caller calls shuffle(xs) with its array.
ShuffleCall ==
  /\ xret = 0
  /\ LET r == ShuffleOnHeap(xgen, heap, xarg)
     IN /\ heap' = r.heap
        /\ xret' = r.ret
        /\ xgen' = r.st
  /\ UNCHANGED << xarg, coreVars, chaosVars, violationVars, langVars >>

NextHeap == HeapWarm \/ ShuffleCall

SpecHeap == InitHeap /\ [][NextHeap]_vars

\* ============================================================ violations
\* part_005 createConversationWithViolation('sequence', options).

\* Math.floor(n / 2)
Half(n) == n \div 2

\* The swap of injectSequenceViolation once idx1 and the second nextInt, of
\* outcome r, are known.
SequenceSwapped(r, messages, idx1) ==
  LET idx2 == idx1 + r.val
  IN Return(r.st, IF idx2 < Len(messages) THEN Swap(messages, idx1, idx2) ELSE messages)

\* injectSequenceViolation(conversation), r being the outcome of the first
\* nextInt.
SequencePicked(r, messages) ==
  SequenceSwapped(NextInt(r.st, 1, Half(Len(messages))), messages, r.val)

\* injectSequenceViolation on the messages of the conversation.
InjectSequenceViolation(st, messages) ==
  IF Len(messages) >= 2
  THEN SequencePicked(NextInt(st, 0, Half(Len(messages))), messages)
  ELSE Return(st, messages)

\* createConversationWithViolation('sequence', o): the generated
\* conversation and the one returned.
CreateConversationWithViolation(st, o, counter, clock) ==
  LET made == CreateConversation(st, o, counter, clock)
      r == InjectSequenceViolation(made.st, made.val.messages)
  IN [st |-> r.st, generated |-> made.val,
      returned |-> [made.val EXCEPT !.messages = r.val]]

\* The seeds the factory is constructed with.
ViolationSeeds == { 1, 7, 42, 100, 12345, 30000 }

\* A factory is constructed from a seed.
InitViolation ==
  /\ \E seed \in ViolationSeeds : wgen = Construct(FromInt(seed))
  /\ wmade = <<>>
  /\ CoreIdle /\ ChaosIdle /\ HeapIdle /\ LangIdle

\* The factory is asked for a conversation with a sequence violation.
Violate ==
  /\ wmade = <<>>
  /\ \E o \in FactoryOptions :
       LET r == CreateConversationWithViolation(wgen, o, 0, 1)
       IN /\ wgen' = r.st
          /\ wmade' = [options |-> o, generated |-> r.generated, returned |-> r.returned]
  /\ UNCHANGED << coreVars, chaosVars, heapVars, langVars >>

NextViolation == Violate

SpecViolation == InitViolation /\ [][NextViolation]_vars

\* ============================================================ LangChain parser
\* part_006 LangChainParser.parse on an object with a chat_history and
\* neither agents nor chains.  A source message is kept as its type, "" for
\* a message without type and role.

\* createUniqueId(prefix): the k-th id made for the prefix.
UniqueId(prefix, k) == << prefix, k >>

\* typeToAgentName(type)
TypeToAgentName(type) == IF type = "ai" THEN "assistant" ELSE type

\* langChainTypeToRole(type)
LangChainTypeToRole(type) ==
  IF type = "human" THEN "user" ELSE IF type = "system" THEN "system" ELSE "assistant"

\* messageTypes: the truthy types of the messages from the k-th on, in the
\* order a Set keeps them, seen being those added so far.
RECURSIVE TypesFrom(_, _, _)
TypesFrom(history, k, seen) ==
  IF k > Len(history) THEN seen
  ELSE IF history[k] = "" \/ \E i \in 1..Len(seen) : seen[i] = history[k]
  THEN TypesFrom(history, k + 1, seen)
  ELSE TypesFrom(history, k + 1, Append(seen, history[k]))

\* The agent extractAgents creates for a message type, as the k-th agent.
InferredAgent(type, k) ==
  [id |-> UniqueId("agent", k), name |-> TypeToAgentName(type),
   type |-> IF type = "human" THEN "user" ELSE "assistant", inferred |-> TRUE]

\* for (const type of messageTypes): agentMap gets an agent for the type
\* unless it holds one of that name.
RECURSIVE AgentsFrom(_, _, _)
AgentsFrom(types, k, agents) ==
  IF k > Len(types) THEN agents
  ELSE IF \E i \in 1..Len(agents) : agents[i].name = TypeToAgentName(types[k])
  THEN AgentsFrom(types, k + 1, agents)
  ELSE AgentsFrom(types, k + 1, Append(agents, InferredAgent(types[k], Len(agents) + 1)))

\* extractAgents(data) for data without agents and chains.
ExtractAgents(history) ==
  LET agents == AgentsFrom(TypesFrom(history, 1, <<>>), 1, <<>>)
  IN IF agents = <<>>
     THEN << [id |-> UniqueId("agent", 1), name |-> "assistant",
              type |-> "assistant", inferred |-> TRUE] >>
     ELSE agents

\* The key parseMessages files an inferred agent under in agentByType.
TypeKey(agent) ==
  IF agent.name = "human" THEN "human"
  ELSE IF agent.name = "assistant" THEN "ai"
  ELSE agent.type

\* agentByType.get(msgType) || defaultAgent: a later agent of the same key
\* has replaced an earlier one.
AgentFor(agents, msgType) ==
  LET keyed == { i \in 1..Len(agents) : agents[i].inferred /\ TypeKey(agents[i]) = msgType }
  IN IF keyed = {} THEN agents[1]
     ELSE agents[CHOOSE i \in keyed : \A h \in keyed : h <= i]

\* parseMessages(data, agents)
ParseMessages(history, agents) ==
  [i \in 1..Len(history) |->
     LET msgType == IF history[i] = "" THEN "ai" ELSE history[i]
     IN [id |-> UniqueId("msg", i),
         agentId |-> AgentFor(agents, msgType).id,
         role |-> LangChainTypeToRole(msgType),
         parentMessageId |-> IF i > 1 THEN << UniqueId("msg", i - 1) >> ELSE <<>>,
         originalType |-> msgType]]

\* The message types of the input.
SourceTypes == {"human", "ai", "system", "function", "assistant", ""}

\* The parser holds no state; parse has not been called.
InitLang ==
  /\ lmade = <<>>
  /\ CoreIdle /\ ChaosIdle /\ HeapIdle /\ ViolationIdle

\* parse({ chat_history }) with at most MaxMsgs messages.
ParseHistory ==
  /\ \E n \in 0..MaxMsgs : \E history \in [1..n -> SourceTypes] :
       LET agents == ExtractAgents(history)
       IN lmade' = [input |-> history, agents |-> agents,
                    messages |-> ParseMessages(history, agents)]
  /\ UNCHANGED << coreVars, chaosVars, heapVars, violationVars >>

NextLang == ParseHistory

SpecLang == InitLang /\ [][NextLang]_vars

\* ============================================================ properties
\* What two objects driven by the same script have in common: the callers
\* observed the same outcome at every call both have made, and the objects
\* are in the same state once both have made the same number of calls.
SameRun(g, h) ==
  /\ \A i \in 1..Len(out[g]) : i <= Len(out[h]) => out[g][i] = out[h][i]
  /\ Len(out[g]) = Len(out[h]) => gen[g] = gen[h]

\* C1: two SeededRandom objects constructed with the same seed and driven
\* with the same sequence of operations return identical results at every
\* step and end in the same internal state.
C1_Determinism == \A g, h \in Gens : ctor[g] = ctor[h] => SameRun(g, h)

\* Both objects were built from 12345, ran a shuffle and then another call.
C1_Witness ==
  /\ ctor[1] = FromInt(12345) /\ ctor[2] = FromInt(12345)
  /\ Len(out[1]) = MaxOps /\ Len(out[2]) = MaxOps
  /\ script[1].op = "shuffle"
  /\ out[1][1].val # <<"a", "b", "b">>

\* The seed is an integer of [1, 2^31 - 2].
SeedInRange(s) == s \in Int /\ 1 <= s /\ s <= MODULUS - 1

\* C2: after construction from any seed argument, after draws, after
\* reset(seed) and in a clone, the seed is an integer in [1, 2^31-2], never 0.
C2_SeedInRange ==
  /\ SeedInRange(fgen.seed)
  /\ SeedInRange(fpre.seed)
  /\ fcall.op = "clone" => SeedInRange(fres.val.seed)

\* After some draws the object was reset with MODULUS, which reduces to 0
\* before the repair to 1.
C2_Witness ==
  /\ fcall.op = "reset"
  /\ fcall.args = << SeedNum(FALSE, 1, 0, FALSE) >>
  /\ fpre.draws = MaxWarm
  /\ fgen.seed = 1

\* 2 * h + (odd ? x : 0) modulo m, and x * a modulo m by doubling: the
\* product the claims speak of, computed another way than the model does.
TimesModStep(h, x, odd, m) ==
  IF odd
  THEN (((h + (h - m)) % m) + (x - m)) % m
  ELSE (h + (h - m)) % m

RECURSIVE TimesMod(_, _, _)
TimesMod(x, a, m) ==
  IF a = 0 THEN 0
  ELSE TimesModStep(TimesMod(x, a \div 2, m), x, a % 2 = 1, m)

\* C3: each next() replaces the state by (seed * 48271) mod (2^31 - 1) and
\* returns (newSeed - 1) / (2^31 - 2), a value >= 0 and < 1.
C3_NextContract ==
  sval # <<>> =>
    /\ sgen.seed = TimesMod(sprev, MULTIPLIER, MODULUS)
    /\ sval[1] = [num |-> sgen.seed - 1, den |-> MODULUS - 1]
    /\ 0 <= sval[1].num
    /\ sval[1].num < sval[1].den

\* StreamLen consecutive draws have been taken.
C3_Witness == sgen.draws = StreamLen /\ sval # <<>> /\ sctor = FromInt(12345)

\* The seed arguments C4 pairs: 0 with 1, and an integer with its negation.
C4_Paired(x, y) ==
  \/ x = FromInt(0) /\ y = FromInt(1)
  \/ ~x.half /\ y = [x EXCEPT !.neg = ~x.neg]

\* C4: SeededRandom(0) and SeededRandom(1) produce identical draws, and so do
\* SeededRandom(-s) and SeededRandom(s) for every integer s.
C4_SeedQuirks ==
  \A g, h \in Gens : C4_Paired(ctor[g], ctor[h]) => SameRun(g, h)

\* The objects built from -12345 and 12345 have both made two next() calls.
C4_Witness ==
  /\ ctor[1] = FromInt(0 - 12345) /\ ctor[2] = FromInt(12345)
  /\ Len(out[1]) = MaxOps /\ Len(out[2]) = MaxOps
  /\ \A i \in 1..MaxOps : script[i].op = "next"

\* The residue of a seed argument modulo MODULUS (its integer part; the half
\* is compared apart).
Residue(x) ==
  IF ~x.neg THEN x.lo
  ELSE IF x.half THEN MODULUS - x.lo - 1
  ELSE (MODULUS - x.lo) % MODULUS

Congruent(x, y) == x.half = y.half /\ Residue(x) = Residue(y)

\* C5 as stated: two seeds that are not congruent modulo 2^31-1 give draw
\* sequences that differ somewhere in the first 100 draws.
C5_AsClaimed ==
  (~Congruent(tctor[1], tctor[2]) /\ tgen[1].draws = TwinLen) => tdiff

\* C5 amended: two seeds that construct different states give draw
\* sequences that differ within the first 100 draws, from the first draw on.
C5_DistinctStatesDiffer ==
  (Normalize(tctor[1]) # Normalize(tctor[2]) /\ tgen[1].draws >= 1) => tdiff

\* 100 draws were taken from the objects built from 12345 and 67890.
C5_Witness ==
  /\ tctor[1] = FromInt(12345) /\ tctor[2] = FromInt(67890)
  /\ tgen[1].draws = TwinLen
  /\ tdiff

\* C6: from seed 1, the state produced by the 10,000th next() equals CHECK.
C6_AsClaimed ==
  (sctor = FromInt(1) /\ sgen.draws = CheckIterations) => sgen.seed = CHECK

\* C7: verify() returns true: the state it reaches from seed 1 after its
\* loop equals CHECK.
C7_VerifyTrue == vpc = "done" => (vret = TRUE /\ vgen.seed = CHECK)

\* verify() has returned.
C7_Witness == vpc = "done" /\ vi = VerifyIterations /\ vgen.draws = vi

\* C8: for integers min <= max, nextInt(min, max) returns an integer v with
\* min <= v <= max and consumes exactly one draw; when min = max it is min.
C8_NextIntRange ==
  (fn = 1 /\ fcall.op = "nextInt" /\ fcall.args[1] <= fcall.args[2]) =>
    /\ fres.ok
    /\ fres.val \in Int
    /\ fcall.args[1] <= fres.val /\ fres.val <= fcall.args[2]
    /\ fgen.draws = fpre.draws + 1
    /\ fcall.args[1] = fcall.args[2] => fres.val = fcall.args[1]

\* nextInt returned its upper end on a range of more than one value.
C8_Witness ==
  /\ fn = 1 /\ fcall.op = "nextInt"
  /\ fcall.args[1] < fcall.args[2]
  /\ fres.ok /\ fres.val = fcall.args[2]

\* The calls the generator rejects.
BadNextInt == fn = 1 /\ fcall.op = "nextInt" /\ fcall.args[1] > fcall.args[2]
BadNextFloat == fn = 1 /\ fcall.op = "nextFloat" /\ fcall.args[1] >= fcall.args[2]
BadNextBoolean ==
  /\ fn = 1 /\ fcall.op = "nextBoolean"
  /\ (fcall.args[1].num < 0 \/ fcall.args[1].num > fcall.args[1].den)
BadChoice == fn = 1 /\ fcall.op = "choice" /\ fcall.args[1] = <<>>

Count(e, xs) == Cardinality({ i \in 1..Len(xs) : xs[i] = e })

\* C10: shuffle returns an array of the same length whose multiset of
\* elements equals that of the input, duplicates and the empty array included.
C10_ShufflePermutes ==
  (fn = 1 /\ fcall.op = "shuffle") =>
    /\ fres.ok
    /\ Len(fres.val) = Len(fcall.args[1])
    /\ \A e \in Elems \cup {"undefined"} :
         Count(e, fres.val) = Count(e, fcall.args[1])

\* An array with a duplicate came back in another order.
C10_Witness ==
  /\ fn = 1 /\ fcall.op = "shuffle"
  /\ Len(fcall.args[1]) = 3
  /\ fcall.args[1][1] = fcall.args[1][2]
  /\ fres.val # fcall.args[1]

\* xs with the elements at the 0-based positions i and j exchanged.
Exchanged(xs, i, j) ==
  [k \in 1..Len(xs) |->
     IF k = i + 1 THEN xs[j + 1] ELSE IF k = j + 1 THEN xs[i + 1] ELSE xs[k]]

\* The least numerator k with k / (MODULUS - 1) >= j / n, that is
\* ceil(j * (MODULUS - 1) / n), formed without leaving 32 bits.
Threshold(j, n) ==
  j * ((MODULUS - 1) \div n) + (j * ((MODULUS - 1) % n) + n - 1) \div n

\* The integer of [0, i] that the draw leaving the state s selects,
\* floor(u * (i + 1)) for u = (s - 1) / (MODULUS - 1): the number of
\* j in 1..i with u >= j / (i + 1).
Picked(s, i) == Cardinality({ j \in 1..i : s - 1 >= Threshold(j, i + 1) })

RECURSIVE FisherYates(_, _, _)
\* Fisher-Yates from the end: for i down to 1, one draw from the state s
\* selects the position of [0, i] that position i is exchanged with.
FisherYates(s, xs, i) ==
  IF i < 1 THEN xs
  ELSE FisherYates(NextSeed(s), Exchanged(xs, i, Picked(NextSeed(s), i)), i - 1)

RECURSIVE Advanced(_, _)
\* The state reached from s by n draws.
Advanced(s, n) == IF n <= 0 THEN s ELSE Advanced(NextSeed(s), n - 1)

\* The number of draws a shuffle of n elements takes.
ShuffleDraws(n) == IF n <= 1 THEN 0 ELSE n - 1

\* C11: shuffle(xs) returns what Fisher-Yates from the end gives (i from
\* len-1 down to 1, position i exchanged with position nextInt(0, i)) and
\* advances the generator by exactly len-1 draws, none for an empty or a
\* one-element array.
C11_ShuffleFisherYates ==
  (fn = 1 /\ fcall.op = "shuffle") =>
    /\ fres.ok
    /\ fres.val = FisherYates(fpre.seed, fcall.args[1], Len(fcall.args[1]) - 1)
    /\ fgen.draws = fpre.draws + ShuffleDraws(Len(fcall.args[1]))
    /\ fgen.seed = Advanced(fpre.seed, ShuffleDraws(Len(fcall.args[1])))

C11_Witness ==
  /\ fn = 1 /\ fcall.op = "shuffle" /\ fres.ok
  /\ fcall.args[1] = <<"a", "b", "c">>
  /\ fres.val # fcall.args[1]
  /\ fpre.draws > 0
  /\ fgen.draws = fpre.draws + 2

KSameRun ==
  /\ \A i \in 1..Len(kout[1]) : i <= Len(kout[2]) => kout[1][i] = kout[2][i]
  /\ Len(kout[1]) = Len(kout[2]) => kgen[1].seed = kgen[2].seed

\* The last call changed no object but the one it was made on.
KFrame == kwho # 0 => kgen[3 - kwho] = kprev[3 - kwho]

\* C13: after g2 = g.clone(), taken at any point of g's life, g and g2 give
\* identical results for identical subsequent calls, and a draw or a reset on
\* one of them leaves the other's state unchanged.
C13_CloneIndependent == khow = "clone" => (KSameRun /\ KFrame)

\* The clone was taken after draws, then the original drew and was reset while
\* the clone had made the first of these calls only.
C13_Witness ==
  /\ khow = "clone"
  /\ kgen[2].draws = 1 /\ kgen[1].draws > 2
  /\ Len(kout[1]) = 2 /\ Len(kout[2]) = 1
  /\ kscript[1].op = "next" /\ kscript[2].op = "reset" /\ kscript[2].args # <<>>
  /\ kgen[1].seed # kgen[2].seed

\* C14: reset(s), after any number of draws, leaves the generator in the state
\* of a fresh SeededRandom(s), and the calls that follow give the results they
\* give on the fresh object.
C14_ResetAsFresh == khow = "reset" => (KSameRun /\ KFrame)

\* The original had drawn, was reset with MODULUS (reduced to 0, repaired to
\* 1) and both objects then made two calls.
C14_Witness ==
  /\ khow = "reset"
  /\ kgen[1].draws > kgen[2].draws
  /\ Len(kout[1]) = 2 /\ Len(kout[2]) = 2
  /\ kscript[1].op = "next" /\ kscript[2].op = "nextInt"
  /\ kout[1][1].val = NextValue(MULTIPLIER)

\* A run of inject has ended, with a result or with an error.
Ended(r) == jrun[r].status \in {"done", "failed"}

TotalLoss ==
  /\ Len(jcfgs) = 1
  /\ jcfgs[1].mode = "message-loss"
  /\ jcfgs[1].parameters.lossRate = Prob(1, 1)

\* C16: message-loss with lossRate = 1.0 drops every message: the run
\* returns, the mutated conversation has no message and droppedMessages is
\* the number of messages handed in (10 for the conversation of 10 messages
\* from 2 agents with seed 7).
C16_TotalLossDropsAll ==
  \A r \in Gens :
    (TotalLoss /\ jrun[r].status # "idle" /\ (jrun[r].pc > 1 \/ Ended(r))) =>
      /\ jrun[r].status # "failed"
      /\ jrun[r].messages = <<>>
      /\ jrun[r].statistics.droppedMessages = Len(jconv)
      /\ jrun[r].status = "done" =>
           jrun[r].result[1].statistics.droppedMessages = Len(jconv)

C16_Witness ==
  /\ TotalLoss /\ jcfgs[1].seed = <<7>>
  /\ Len(jconv) = 10
  /\ jrun[1].status = "done"
  /\ jrun[1].messages = <<>>
  /\ jrun[1].result[1].statistics.droppedMessages = 10
  /\ jgen[1].draws = 10

\* The list is the single configuration delay with minDelay = maxDelay = 100,
\* distribution uniform and seed 1.
FixedDelay ==
  /\ Len(jcfgs) = 1
  /\ jcfgs[1].mode = "delay"
  /\ jcfgs[1].seed = <<1>>
  /\ jcfgs[1].parameters.minDelay = 100 /\ jcfgs[1].parameters.maxDelay = 100
  /\ jcfgs[1].parameters.distribution = "uniform"

\* The offset u * scale + offset is exactly n.
OffsetIs(v, n) == v.offset = n /\ (v.scale = 0 \/ v.u.num = 0)

\* C17: delay with minDelay = maxDelay = 100, distribution uniform and seed 1
\* completes without error on any conversation and shifts every eligible
\* message's timestamp by exactly +100, the offset being sampled with
\* nextFloat(minDelay, maxDelay).
C17_AsClaimed ==
  \A r \in Gens :
    (FixedDelay /\ Ended(r)) =>
      /\ jrun[r].status = "done"
      /\ \A k \in 1..Len(jrun[r].messages) :
           /\ Len(jrun[r].messages[k].offsets) = 1
           /\ OffsetIs(jrun[r].messages[k].offsets[1], 100)

\* No message stands before the message named by its parentMessageId.
CausalOrder(messages) ==
  \A a, k \in 1..Len(messages) :
    messages[k].id = messages[a].parentMessageId => k < a

\* C18: for an input conversation in which each message follows its parent,
\* reorder with preserveCausality = true produces an output order in which no
\* message is placed before the message named by its parentMessageId.
C18_AsClaimed ==
  \A r \in Gens :
    (jcfgs # <<>> /\ jcfgs[1].mode = "reorder" /\ jcfgs[1].parameters.preserveCausality
       /\ jrun[r].status = "done")
      => CausalOrder(jrun[r].messages)

\* What the determinism of the factory is stated for: the messages' contents,
\* roles and timestamps and the agents' names, types and capabilities.
Compared(conv) ==
  [messages |-> [j \in 1..Len(conv.messages) |->
                   << conv.messages[j].content, conv.messages[j].role,
                      conv.messages[j].timestamp >>],
   agents |-> [i \in 1..Len(conv.agents) |->
                 << conv.agents[i].name, conv.agents[i].type,
                    conv.agents[i].capabilities >>]]

\* C19: two ConversationFactory instances constructed with the same seed and
\* called with the same createConversation options (fixed baseTimestamp)
\* produce conversations with identical message contents, roles and
\* timestamps and identical agent names, types and capabilities.
C19_FactoryDeterministic ==
  (cseed[1] = cseed[2] /\ cmade[1] # <<>> /\ cmade[2] # <<>> /\ cmade[1][1] = cmade[2][1])
    => Compared(cmade[1][2]) = Compared(cmade[2][2])

\* Both factories made two agents and two delayed messages a millisecond
\* apart: the ids differ, the second message is later than the first.
C19_Witness ==
  /\ cseed[1] = cseed[2]
  /\ cmade[1] # <<>> /\ cmade[2] # <<>> /\ cmade[1][1] = cmade[2][1]
  /\ cmade[1][1].agentCount = 2 /\ cmade[1][1].messageCount = 2
  /\ cmade[1][1].simulateDelays /\ cmade[1][1].includeMetadata
  /\ cmade[1][2].id # cmade[2][2].id
  /\ cmade[1][2].messages[2].timestamp > cmade[1][2].messages[1].timestamp
  /\ cmade[1][2].messages[1].timestamp > 1000000

\* The messages of conversation all name an agent of conversation.agents.
AgentsKnown(conversation) ==
  \A k \in 1..Len(conversation.messages.items) :
    \E a \in 1..Len(conversation.agents.items) :
      conversation.agents.items[a].id = conversation.messages.items[k].agentId

\* The last call was parse and its parser resolved to a conversation.
ParserResolved ==
  /\ plast # <<>>
  /\ plast.op = "parse"
  /\ plast.outcome.raw # <<>>

\* C20: a conversation parse returns has every message's agentId among the
\* ids of its agents, and a conversation a parser resolved to in which some
\* message names no agent is not returned: parse throws ParserExecutionError.
C20_ParsedAgentsKnown ==
  /\ (plast # <<>> /\ plast.op = "parse" /\ plast.outcome.ok)
       => AgentsKnown(plast.outcome.val)
  /\ (ParserResolved /\ ~AgentsKnown(plast.outcome.raw[1]))
       => (~plast.outcome.ok /\ plast.outcome.name = "ParserExecutionError")

\* parse reached a parser that resolved to a conversation whose only flaw is
\* a message of an unknown agent, and threw ParserExecutionError for it.
C20_Witness ==
  /\ ParserResolved
  /\ ~plast.outcome.ok
  /\ plast.outcome.name = "ParserExecutionError"
  /\ plast.outcome.msg = "Message references unknown agent"
  /\ ~AgentsKnown(plast.outcome.raw[1])
  /\ ValidateConversationUnreferenced(plast.outcome.raw[1]) = <<>>

\* The options of the last create call that end up in parameters.
Copied == DOMAIN hmade.options \ {"seed", "targetAgents"}

\* C21: a create method copies every option the caller wrote unchanged into
\* the configuration it returns, the values 0 and false included; a default
\* (or the clock, for the seed) appears only where the option was omitted.
C21_AsClaimed ==
  hmade # <<>> =>
    /\ \A f \in Copied :
         hmade.options[f] # Omitted => hmade.config.parameters[f] = hmade.options[f][1]
    /\ "targetAgents" \in DOMAIN hmade.options =>
         hmade.config.parameters.targetAgents = hmade.options.targetAgents
    /\ hmade.options.seed # Omitted => hmade.config.seed = hmade.options.seed[1]

\* A rate between 0 and 1.
UnitRate(r) == r.num >= 0 /\ r.num <= r.den

\* The rate fields of the parameters of the last create call.
RateFields == DOMAIN hmade.config.parameters \cap {"lossRate", "corruptionRate", "failureRate"}

\* C22: whatever options the caller wrote, the configuration a create
\* method returns has its probability and rate fields in [0,1] and
\* minDelay <= maxDelay.
C22_AsClaimed ==
  hmade # <<>> =>
    /\ hmade.config.probability # <<>> => UnitRate(hmade.config.probability[1])
    /\ \A f \in RateFields : UnitRate(hmade.config.parameters[f])
    /\ hmade.config.mode = "delay" =>
         hmade.config.parameters.minDelay <= hmade.config.parameters.maxDelay

\* C23: shuffle works in place: once shuffle(xs) has returned, the array the
\* caller passed is the array returned and holds the shuffled order.
C23_AsClaimed ==
  xret # 0 =>
    /\ xret = xarg
    /\ heap[xarg] = heap[xret]

\* The single object's last call was reset() without an argument.
ResetWithoutSeed == fn = 1 /\ fcall.op = "reset" /\ fcall.args = <<>>

\* C24: reset() without an argument puts the generator back on its initial
\* seed: after any number of draws, the draws that follow reset() are the
\* draws that followed construction.
C24_AsClaimed ==
  ResetWithoutSeed =>
    /\ fgen.seed = Construct(fctor).seed
    /\ Next(fgen).val = Next(Construct(fctor)).val

\* register(parser) has to refuse parser on the registry ps, fm: parser is
\* structurally invalid, its id is registered, or one of its formats is mapped.
Refused(ps, fm, parser) ==
  \/ parser.id = "" \/ parser.name = "" \/ parser.formats = <<>>
  \/ Methods \ parser.methods # {}
  \/ \E k \in 1..Len(ps) : ps[k].id = parser.id
  \/ \E e \in fm : \E k \in 1..Len(parser.formats) : parser.formats[k] = e[1]

\* The call of this step threw ParserRegistrationError and changed no map.
ThrewAndKept ==
  /\ ~plast'.outcome.ok
  /\ plast'.outcome.name = "ParserRegistrationError"
  /\ parsers' = parsers
  /\ formatMap' = formatMap

\* A register or unregister call that has to be refused is refused.
RefusedCallsKeep ==
  /\ (plast'.op = "register" /\ Refused(parsers, formatMap, plast'.args[1])) => ThrewAndKept
  /\ (plast'.op = "unregister" /\ \A k \in 1..Len(parsers) : parsers[k].id # plast'.args[1])
       => ThrewAndKept

\* C25: register throws ParserRegistrationError for a structurally invalid
\* parser, a registered id or a mapped format, and unregister for an unknown
\* id; each such call leaves the parser map and the format map as they were.
C25_RefusedCallsKeepRegistry == [][RefusedCallsKeep]_vars

\* register refused a well-formed parser of a new id over a mapped format,
\* on a registry that holds parsers.
C25_Witness ==
  /\ plast # <<>>
  /\ plast.op = "register"
  /\ ~plast.outcome.ok
  /\ plast.outcome.msg = "format already handled"
  /\ Len(parsers) > 0
  /\ \A k \in 1..Len(parsers) : parsers[k].id # plast.args[1].id

\* detect(content) of the k-th registered parser returns true.
DetectsTrue(k, content) ==
  content \in parsers[k].detects /\ content \notin parsers[k].detectThrows

\* C26: detectFormat returns the first parser, in registration order, whose
\* detect returns true, passing over parsers whose detect throws, and
\* returns undefined only when no registered parser's detect returns true.
C26_FirstDetectingParser ==
  (plast # <<>> /\ plast.op = "detectFormat") =>
    LET content == plast.args[1]
        found == plast.outcome.val
    IN /\ plast.outcome.ok
       /\ found = <<>> <=> ~\E k \in 1..Len(parsers) : DetectsTrue(k, content)
       /\ found # <<>> =>
            \E k \in 1..Len(parsers) :
              /\ parsers[k] = found[1]
              /\ DetectsTrue(k, content)
              /\ \A h \in 1..(k - 1) : ~DetectsTrue(h, content)

\* detectFormat returned the second registered parser after the detect of
\* the first one threw.
C26_Witness ==
  /\ plast # <<>>
  /\ plast.op = "detectFormat"
  /\ Len(parsers) >= 2
  /\ plast.args[1] \in parsers[1].detectThrows
  /\ plast.outcome.val = << parsers[2] >>

\* The registered parsers that list the format f.
Listing(f) == { k \in 1..Len(parsers) : \E i \in 1..Len(parsers[k].formats) : parsers[k].formats[i] = f }

\* Every format a registered parser lists or the format map holds.
KnownFormats ==
  { e[1] : e \in formatMap } \cup UNION { FormatsOf(parsers[k]) : k \in 1..Len(parsers) }

\* C28: after any calls of register, unregister and clear the maps agree: f
\* maps to id p exactly when a registered parser with id p lists f, no format
\* is listed by two registered parsers, getParser(f) is that parser, and
\* getStats reports the sizes of the two maps.
C28_MapsConsistent ==
  /\ \A f \in KnownFormats \cup Formats :
       /\ Cardinality(Listing(f)) <= 1
       /\ \A k \in 1..Len(parsers) : << f, parsers[k].id >> \in formatMap <=> k \in Listing(f)
       /\ \A k \in Listing(f) : GetParser(parsers, formatMap, f) = << parsers[k] >>
       /\ Listing(f) = {} => GetParser(parsers, formatMap, f) = <<>>
  /\ \A e \in formatMap : \E k \in 1..Len(parsers) : parsers[k].id = e[2]
  /\ \A k, h \in 1..Len(parsers) : parsers[k].id = parsers[h].id => k = h
  /\ GetStats(parsers, formatMap).parserCount = Len(parsers)
  /\ GetStats(parsers, formatMap).formatCount = Cardinality(KnownFormats)

\* Three parsers are registered, the first one registered second or later
\* in the pool, and the last register call was refused.
C28_Witness ==
  /\ Len(parsers) = 3
  /\ parsers[1].id = "langchain"
  /\ plast # <<>>
  /\ plast.op = "register"
  /\ ~plast.outcome.ok

\* The call c carries arguments its operation rejects.
Rejecting(c) ==
  \/ c.op = "nextInt" /\ c.args[1] > c.args[2]
  \/ c.op = "nextFloat" /\ c.args[1] >= c.args[2]
  \/ c.op = "nextBoolean" /\ (c.args[1].num < 0 \/ c.args[1].num > c.args[1].den)
  \/ c.op = "choice" /\ Len(c.args[1]) = 0
  \/ c.op = "sample" /\ (c.args[2] < 0 \/ c.args[2] > Len(c.args[1]))
  \/ c.op = "string" /\ c.args[1] < 0
  \/ c.op = "exponential" /\ c.args[1] <= 0

\* C29: an operation that rejects its arguments throws before it consumes a
\* draw: the call fails and the generator is in the state it had before it.
C29_RejectedCallsDrawNothing ==
  fn = 1 =>
    /\ Rejecting(fcall) => (~fres.ok /\ fgen = fpre)
    /\ ~fres.ok => fgen = fpre

\* choice on an empty array was rejected by a generator that had drawn before.
C29_Witness ==
  /\ fn = 1
  /\ fcall.op = "choice"
  /\ Rejecting(fcall)
  /\ ~fres.ok
  /\ fgen.draws > 0
  /\ fgen = fpre

\* The sequence after is the sequence before with the elements at two
\* distinct positions exchanged.
SwappedPair(before, after) ==
  \E i, j \in 1..Len(before) :
    /\ i < j
    /\ after = [before EXCEPT ![i] = before[j], ![j] = before[i]]

\* C27: for a generated conversation of at least 2 messages and any
\* generator state, createConversationWithViolation('sequence') returns the
\* generated messages with two of them, at distinct positions, swapped.
C27_AsClaimed ==
  (wmade # <<>> /\ Len(wmade.generated.messages) >= 2) =>
    /\ SwappedPair(wmade.generated.messages, wmade.returned.messages)
    /\ wmade.returned.messages # wmade.generated.messages

\* The four LangChain message types.
LangChainTypes == {"human", "ai", "system", "function"}

\* The agents parse created for the message type.
CreatedFor(type) ==
  { a \in 1..Len(lmade.agents) : lmade.agents[a].name = TypeToAgentName(type) }

\* C30: for an input without agents and chains, parse creates one agent per
\* distinct message type among human, ai, system and function, gives every
\* message the id of the agent created for its type, and so never gives
\* messages of different types the same agentId.
C30_AsClaimed ==
  (lmade # <<>> /\ \A i \in 1..Len(lmade.input) : lmade.input[i] \in LangChainTypes) =>
    /\ \A i \in 1..Len(lmade.input) :
         /\ Cardinality(CreatedFor(lmade.input[i])) = 1
         /\ \A a \in CreatedFor(lmade.input[i]) : lmade.messages[i].agentId = lmade.agents[a].id
    /\ \A i, j \in 1..Len(lmade.input) :
         lmade.input[i] # lmade.input[j] => lmade.messages[i].agentId # lmade.messages[j].agentId

====
